---- MODULE Spec2Model ----
(***************************************************************************)
(* Markdown sanitisation and SoT lint rules of the Wooly-Fluffy scripts.   *)
(*                                                                         *)
(* A text is a sequence of characters; a character is a one-character      *)
(* string.  The backtick cannot be written inside a TLA+ string, so it is  *)
(* the value BT.  Three symbols stand for literal words that the regular   *)
(* expressions of the linter only ever match whole: SW ("ステータス"),       *)
(* AW ("Approved") and KW ("候補").                                         *)
(***************************************************************************)
EXTENDS Integers, Sequences, FiniteSets, TLC

VARIABLES
    text,   \* the document under lint
    n,      \* fragments typed into it so far
    calls,  \* names of the functions applied so far, in order
    path,   \* rel_path handed to the last lint rule
    prev,   \* the value the last function was applied to
    out     \* the current value: the text, then each call's result

vars == <<text, n, calls, path, prev, out>>

\* ---------------------------------------------------------------- characters

BT == "bt"
TL == "~"
SP == " "
TAB == "\t"
NL == "\n"
CR == "\r"
BSL == "\\"
LT == "<"
GT == ">"
BANG == "!"
DASH == "-"
COLON == ":"
HASH == "#"
SW == "S"
AW == "A"
KW == "K"

IsBlank(c) == c = SP \/ c = TAB

\* Python's \s on the characters of the model.
IsSpace(c) == c = SP \/ c = TAB \/ c = NL \/ c = CR

IsDigit(c) == c \in {"0", "1", "2", "3", "4", "5", "6", "7", "8", "9"}

\* ---------------------------------------------------------------- lines

\* F(x) with x evaluated before F is entered, as a statement of the code runs
\* on the finished value of the statement before it.
Then(x, F(_)) == CHOOSE r \in { F(y) : y \in { x } } : TRUE

\* "".join(parts[a..b]), the list halved at each step.
RECURSIVE Concat(_, _, _)
Concat(parts, a, b) ==
    IF a > b THEN << >>
    ELSE IF a = b THEN parts[a]
    ELSE Concat(parts, a, (a + b) \div 2) \o Concat(parts, (a + b) \div 2 + 1, b)

\* "".join(parts)
ConcatAll(parts) == Concat(parts, 1, Len(parts))

\* The positions of t where a line of str.splitlines(keepends=True) starts:
\* the first one, and each one after a terminator (LF, CR or CR LF).
LineStarts(t) ==
    SelectSeq([p \in 1..Len(t) |-> p],
              LAMBDA p : p = 1 \/ t[p - 1] = NL \/ (t[p - 1] = CR /\ t[p] # NL))

\* The lines of t that start at the positions st, each up to the next start.
LinesAt(t, st) ==
    [k \in 1..Len(st) |->
        SubSeq(t, st[k], IF k = Len(st) THEN Len(t) ELSE st[k + 1] - 1)]

\* str.splitlines(keepends=True)
splitlines(t) == LinesAt(t, LineStarts(t))

\* Length of the run of character c that starts at position i of t.
RECURSIVE RunLen(_, _, _)
RunLen(t, i, c) ==
    IF i > Len(t) \/ t[i] # c THEN 0 ELSE 1 + RunLen(t, i + 1, c)

\* Number of leading blanks (space or tab) of t from position i.
\* The first position at or after i that holds one of the characters cs, or
\* Len(t) + 1 when there is none.
NextOf(t, i, cs) ==
    LET found == { q \in i..Len(t) : t[q] \in cs }
    IN  IF found = {} THEN Len(t) + 1 ELSE CHOOSE q \in found : \A r \in found : q <= r

\* The first position at or after i where a line starts ("^" under
\* re.MULTILINE), or Len(t) + 1 when there is none.
NextLineStart(t, i) ==
    IF i <= 1 THEN 1 ELSE NextOf(t, i - 1, { NL }) + 1

RECURSIVE BlankRun(_, _)
BlankRun(t, i) ==
    IF i > Len(t) \/ ~IsBlank(t[i]) THEN 0 ELSE 1 + BlankRun(t, i + 1)

\* ---------------------------------------------------------------- fences

FenceMinRun == 3
FenceMaxIndent == 3

\* _FENCE_OPEN_RE.match(line): [char, len] of group(1), or len = 0 for no match.
NoFence == [char |-> "", len |-> 0]

FenceOpenMatch(line) ==
    LET k == BlankRun(line, 1)
        c == IF k + 1 <= Len(line) THEN line[k + 1] ELSE ""
        r == IF c \in {BT, TL} THEN RunLen(line, k + 1, c) ELSE 0
    IN  IF k <= FenceMaxIndent /\ r >= FenceMinRun
        THEN [char |-> c, len |-> r]
        ELSE NoFence

\* Mutant of FenceCloseMatch: the closing pattern without its "[ \t]*$".
FenceCloseMatchNoEnd(line) == FenceOpenMatch(line)

\* _FENCE_CLOSE_RE.match(line): the run, blanks only after it, then the end of
\* the line or its final LF ("$" without MULTILINE).
FenceCloseMatch(line) ==
    LET m == FenceOpenMatch(line)
        k == BlankRun(line, 1)
        a == k + m.len + 1
        e == a + BlankRun(line, a)
    IN  IF m.len > 0 /\ (e > Len(line) \/ (e = Len(line) /\ line[e] = NL))
        THEN m
        ELSE NoFence

\* The test of the closing branch: m is a match of the closing pattern with
\* the fence's character and at least its length.
FenceCloses(m, f) == m.len > 0 /\ m.char = f.char /\ m.len >= f.len

\* One pass of the loop of strip_fenced_code_blocks over a line, the loop's
\* state (in_fence, fence_char, fence_len) being f: the state after the pass.
FenceAfter(line, f) ==
    IF f.len = 0 THEN FenceOpenMatch(line)
    ELSE IF FenceCloses(FenceCloseMatch(line), f) THEN NoFence
    ELSE f

\* What the pass appends to out_lines.
FenceAppends(line, f) ==
    IF f.len = 0 /\ FenceOpenMatch(line).len = 0 THEN line ELSE << >>

\* FenceAppends with the closing line falling through to the append.
FenceAppendsKeepCloser(line, f) ==
    IF f.len = 0
    THEN (IF FenceOpenMatch(line).len = 0 THEN line ELSE << >>)
    ELSE IF FenceCloses(FenceCloseMatch(line), f) THEN line
    ELSE << >>

\* The loop's states after each of the lines a..b, the state before line a
\* being f; the range is halved at each step.
RECURSIVE FenceStates(_, _, _, _)
FenceStatesThen(s, ls, a, b) == s \o FenceStates(ls, a, b, s[Len(s)])

FenceStates(ls, a, b, f) ==
    IF a > b THEN << >>
    ELSE IF a = b THEN << FenceAfter(ls[a], f) >>
    ELSE FenceStatesThen(FenceStates(ls, a, (a + b) \div 2, f), ls, (a + b) \div 2 + 1, b)

FencedOutKeepCloser(ls, i, st) ==
    ConcatAll([k \in 1..(Len(ls) - i + 1) |-> FenceAppendsKeepCloser(ls[i + k - 1], st[k])])

\* Mutant of FencedLoop: the closing line falls through to the append.
FencedLoopKeepCloser(ls, i, f) ==
    FencedOutKeepCloser(ls, i, << f >> \o FenceStates(ls, i, Len(ls), f))

\* What each line appends, st[k] being the state before line i + k - 1.
FencedOut(ls, i, st) ==
    ConcatAll([k \in 1..(Len(ls) - i + 1) |-> FenceAppends(ls[i + k - 1], st[k])])

\* The loop of strip_fenced_code_blocks over the lines from position i, with
\* the loop's state (in_fence, fence_char, fence_len) in f.
FencedLoop(ls, i, f) == FencedOut(ls, i, << f >> \o FenceStates(ls, i, Len(ls), f))

strip_fenced_code_blocks(t) == FencedLoop(splitlines(t), 1, NoFence)

\* ---------------------------------------------------------------- indented code

IndentMinSpaces == 4

\* Mutant of IsIndentedCode: two spaces already count as code.
IsIndentedCodeTwoSpaces(line) ==
    /\ Len(line) >= 1
    /\ \/ line[1] = TAB
       \/ RunLen(line, 1, SP) >= 2

\* _INDENTED_CODE_RE.match(line)
IsIndentedCode(line) ==
    /\ Len(line) >= 1
    /\ \/ line[1] = TAB
       \/ RunLen(line, 1, SP) >= IndentMinSpaces

\* The loop of strip_indented_code_blocks over the lines from position i: a
\* line is appended unless it matches.
IndentedLoop(ls, i) ==
    ConcatAll(SelectSeq(SubSeq(ls, i, Len(ls)), LAMBDA line : ~IsIndentedCode(line)))

strip_indented_code_blocks(t) == IndentedLoop(splitlines(t), 1)

\* ---------------------------------------------------------------- inline code

\* Mutant of FindCloser: a longer run closes the span too.
RECURSIVE FindCloserAtLeast(_, _, _)
FindCloserAtLeast(t, k, w) ==
    IF k > Len(t) THEN 0
    ELSE IF t[k] = BT
         THEN LET r == RunLen(t, k, BT)
              IN  IF r >= w THEN k + r ELSE FindCloserAtLeast(t, k + r, w)
         ELSE FindCloserAtLeast(t, NextOf(t, k + 1, { BT }), w)

\* The closer search of _mask_inline_code_spans: the position after the first
\* run of exactly w backticks at or after k, or 0 when there is none.
RECURSIVE FindCloser(_, _, _)
FindCloser(t, k, w) ==
    IF k > Len(t) THEN 0
    ELSE IF t[k] = BT
         THEN LET r == RunLen(t, k, BT)
              IN  IF r = w THEN k + r ELSE FindCloser(t, k + r, w)
         ELSE FindCloser(t, NextOf(t, k + 1, { BT }), w)

\* Mutant of MaskLoop: a backslash is an ordinary character everywhere.
RECURSIVE MaskLoopNoEscape(_, _)
MaskLoopNoEscape(t, i) ==
    IF i > Len(t) THEN { }
    ELSE IF t[i] = BT
         THEN LET w == RunLen(t, i, BT)
                  k == FindCloser(t, i + w, w)
              IN  IF k > 0 THEN { << i, k - 1 >> } \cup MaskLoopNoEscape(t, k)
                  ELSE MaskLoopNoEscape(t, i + w)
    ELSE MaskLoopNoEscape(t, NextOf(t, i + 1, { BT }))

\* The main loop of _mask_inline_code_spans from position i: the set of the
\* ranges <<open_start, k - 1>> it blanks.
RECURSIVE MaskLoop(_, _)
MaskLoop(t, i) ==
    IF i > Len(t) THEN { }
    ELSE IF t[i] = BSL
         THEN LET nb == RunLen(t, i, BSL)
                  j == i + nb
              IN  IF j <= Len(t) /\ t[j] = BT /\ nb % 2 = 1
                  THEN MaskLoop(t, j + 1)
                  ELSE MaskLoop(t, j)
    ELSE IF t[i] = BT
         THEN LET w == RunLen(t, i, BT)
                  k == FindCloser(t, i + w, w)
              IN  IF k > 0 THEN { << i, k - 1 >> } \cup MaskLoop(t, k)
                  ELSE MaskLoop(t, i + w)
    ELSE MaskLoop(t, NextOf(t, i + 1, { BSL, BT }))

\* The inline code spans of t, delimiters included.
CodeSpans(t) == MaskLoop(t, 1)

InSpan(sp, p) == \E x \in sp : x[1] <= p /\ p <= x[2]

\* Mutant of mask_inline_code_spans: a span is cut out of the text.
mask_inline_code_spansCut(t) ==
    IF CodeSpans(t) = {} THEN t
    ELSE SubSeq(t, 1, (CHOOSE x \in CodeSpans(t) : TRUE)[1] - 1)
             \o SubSeq(t, (CHOOSE x \in CodeSpans(t) : TRUE)[2] + 1, Len(t))

mask_inline_code_spans(t) ==
    LET sp == CodeSpans(t)
    IN  [p \in 1..Len(t) |-> IF InSpan(sp, p) THEN SP ELSE t[p]]

\* ---------------------------------------------------------------- HTML comments

CommentOpen == << LT, BANG, DASH, DASH >>
CommentClose == << DASH, DASH, GT >>

\* Whether the sequence w occurs in t at position i.
OccursAt(t, i, w) ==
    /\ i >= 1
    /\ i + Len(w) - 1 <= Len(t)
    /\ \A q \in 1..Len(w) : t[i + q - 1] = w[q]

\* str.find(w, i): the first position >= i where w occurs in t, or 0.
Find(t, w, i) ==
    LET found == { q \in i..(Len(t) - Len(w) + 1) : OccursAt(t, q, w) }
    IN  IF found = {} THEN 0 ELSE CHOOSE q \in found : \A r \in found : q <= r

\* The splice of strip_html_comment_blocks: the matches of "<!--.*?-->" are
\* found in the masked copy m from position i on, and the text t around them
\* is kept.
RECURSIVE SpliceComments(_, _, _)
SpliceComments(t, m, i) ==
    LET s == Find(m, CommentOpen, i)
        e == IF s = 0 THEN 0 ELSE Find(m, CommentClose, s + Len(CommentOpen))
    IN  IF s = 0 \/ e = 0 THEN SubSeq(t, i, Len(t))
        ELSE SubSeq(t, i, s - 1) \o SpliceComments(t, m, e + Len(CommentClose))

\* Mutant of strip_html_comment_blocks: the text is not cut at an opener that
\* is left after the splice.
strip_html_comment_blocksUncut(t) == SpliceComments(t, mask_inline_code_spans(t), 1)

strip_html_comment_blocks(t) ==
    LET result == SpliceComments(t, mask_inline_code_spans(t), 1)
        i == Find(mask_inline_code_spans(result), CommentOpen, 1)
    IN  IF i = 0 THEN result ELSE SubSeq(result, 1, i - 1)

sanitize_status_text(t) ==
    Then(Then(strip_fenced_code_blocks(t), strip_indented_code_blocks),
         strip_html_comment_blocks)

\* ---------------------------------------------------------------- the run

MaxFrags == 4
MaxCalls == 2

Init ==
    /\ text = << >>
    /\ n = 0
    /\ calls = << >>
    /\ path = "none"
    /\ prev = << >>
    /\ out = << >>

\* The author appends one fragment to the document.
Type(f) ==
    /\ calls = << >>
    /\ n < MaxFrags
    /\ text' = text \o f
    /\ out' = text \o f
    /\ n' = n + 1
    /\ UNCHANGED <<calls, path, prev>>

\* One call of a text function: it is applied to the current value.
Apply(name, result) ==
    /\ Len(calls) < MaxCalls
    /\ calls' = Append(calls, name)
    /\ prev' = out
    /\ out' = result
    /\ UNCHANGED <<text, n, path>>

CallStripFenced == Apply("strip_fenced_code_blocks", strip_fenced_code_blocks(out))

CallSanitize ==
    /\ calls = << >>
    /\ Apply("sanitize_status_text", sanitize_status_text(out))

\* ---------------------------------------------------------------- fenced blocks (C2, C9)

FenceFrags ==
    { << BT, BT, BT, NL >>,
      << BT, BT, BT, BT, NL >>,
      << TL, TL, TL, NL >>,
      << TL, TL, TL, TL, NL >>,
      << BT, BT, BT, SP, "a", NL >>,
      << BT, BT, BT, CR, NL >>,
      << "a", NL >>,
      << SP >>,
      << SP, SP >> }

TypeFence == \E f \in FenceFrags : Type(f)

NextFence == TypeFence \/ CallStripFenced

SpecFence == Init /\ [][NextFence]_vars

\* The fence rule as the claim words it, on one line.
IsFenceChar(c) == c = BT \/ c = TL

\* line = k blanks, then exactly r characters c, then anything else.
StartsWithRun(line, k, c, r) ==
    /\ Len(line) >= k + r
    /\ \A q \in 1..k : IsBlank(line[q])
    /\ \A q \in (k + 1)..(k + r) : line[q] = c
    /\ (Len(line) > k + r => line[k + r + 1] # c)

OpensFence(line, c, r) ==
    /\ IsFenceChar(c)
    /\ r >= 3
    /\ \E k \in 0..3 : StartsWithRun(line, k, c, r)

\* line consists of a run of at least r characters c (indented at most 3
\* columns, blanks after it allowed) and its line feed.
ClosesFence(line, c, r) ==
    \E k \in 0..3 : \E m \in r..Len(line) :
        /\ StartsWithRun(line, k, c, m)
        /\ \A q \in (k + m + 1)..Len(line) :
               IsBlank(line[q]) \/ (q = Len(line) /\ line[q] = NL)

\* The lines the claim says survive, from line i on: an opener removes every
\* line up to its first closer, or up to the end when there is none.
RECURSIVE KeptLines(_, _)
KeptLines(ls, i) ==
    IF i > Len(ls) THEN { }
    ELSE IF \E c \in {BT, TL} : \E r \in 3..Len(ls[i]) : OpensFence(ls[i], c, r)
         THEN LET c == CHOOSE c \in {BT, TL} : \E r \in 3..Len(ls[i]) : OpensFence(ls[i], c, r)
                  r == CHOOSE r \in 3..Len(ls[i]) : OpensFence(ls[i], c, r)
                  closers == { j \in (i + 1)..Len(ls) : ClosesFence(ls[j], c, r) }
              IN  IF closers = { } THEN { }
                  ELSE KeptLines(ls, (CHOOSE j \in closers : \A j2 \in closers : j <= j2) + 1)
         ELSE {i} \cup KeptLines(ls, i + 1)

RECURSIVE JoinKept(_, _, _)
JoinKept(ls, keep, i) ==
    IF i > Len(ls) THEN << >>
    ELSE (IF i \in keep THEN ls[i] ELSE << >>) \o JoinKept(ls, keep, i + 1)

\* C2: strip_fenced_code_blocks removes exactly the lines from each fence
\* opener (a run of N >= 3 backticks or tildes indented at most 3 columns)
\* through the first later line that consists of a run of the same character
\* of length >= N, or through the end of the text when no such line follows;
\* a shorter run or a run of the other character does not close the fence.
C2_FenceClosedOnlyByMatchingRun ==
    calls = << "strip_fenced_code_blocks" >> =>
        out = JoinKept(splitlines(text), KeptLines(splitlines(text), 1), 1)

\* A 4-backtick fence holding a 3-backtick line, closed by 4 backticks.
C2_Witness ==
    /\ calls = << "strip_fenced_code_blocks" >>
    /\ text = << BT, BT, BT, BT, NL, BT, BT, BT, NL, BT, BT, BT, BT, NL, "a", NL >>
    /\ out = << "a", NL >>

\* C9: fenced-code stripping is idempotent: a second pass over the result of
\* the first changes nothing.
C9_StripFencedIdempotent ==
    calls = << "strip_fenced_code_blocks", "strip_fenced_code_blocks" >> => out = prev

\* The second pass ran on a text from which the first removed a fence and
\* kept a line.
C9_Witness ==
    /\ calls = << "strip_fenced_code_blocks", "strip_fenced_code_blocks" >>
    /\ prev # text
    /\ prev # << >>
    /\ out = prev

\* ---------------------------------------------------------------- the pipeline (C1)

SanitizeFrags ==
    { << TL, TL, TL >>,
      << NL >>,
      << SP, SP >>,
      << TAB >>,
      << "a" >>,
      << BT >>,
      << BSL >>,
      CommentOpen,
      CommentClose }

TypeSanitize == \E f \in SanitizeFrags : Type(f)

NextSanitize == TypeSanitize \/ CallSanitize

SpecSanitize == Init /\ [][NextSanitize]_vars

HasBacktick(t) == \E i \in 1..Len(t) : t[i] = BT

HasCommentOpen(t) == \E i \in 1..Len(t) : OccursAt(t, i, CommentOpen)

\* Some line starts with a tab or with four spaces.
HasIndentedLine(t) ==
    \E i \in 1..Len(t) :
        /\ (i = 1 \/ t[i - 1] = NL \/ (t[i - 1] = CR /\ t[i] # NL))
        /\ (t[i] = TAB \/ OccursAt(t, i, << SP, SP, SP, SP >>))

\* Some line starts, after at most three blanks, with three tildes.
HasTildeFence(t) ==
    \E i \in 1..Len(t) : \E k \in 0..3 :
        /\ (i = 1 \/ t[i - 1] = NL \/ (t[i - 1] = CR /\ t[i] # NL))
        /\ \A q \in 0..(k - 1) : i + q <= Len(t) /\ IsBlank(t[i + q])
        /\ OccursAt(t, i + k, << TL, TL, TL >>)

\* C1 as stated: without a backtick and without "<!--" the pipeline is the
\* identity.
C1_IdentityWithoutBacktickOrComment ==
    (calls = << "sanitize_status_text" >> /\ ~HasBacktick(text) /\ ~HasCommentOpen(text))
        => out = text

\* C1 (amended): for every text with no backtick, no "<!--", no line that
\* starts with a tab or four spaces and no line that starts (after at most
\* three blanks) with three tildes, sanitize_status_text returns the text
\* unchanged.
C1_IdentityOnPlainProse ==
    ( /\ calls = << "sanitize_status_text" >>
      /\ ~HasBacktick(text)
      /\ ~HasCommentOpen(text)
      /\ ~HasIndentedLine(text)
      /\ ~HasTildeFence(text) )
        => out = text

\* A text with tildes, a closer and blanks that the pipeline leaves alone.
C1_Witness ==
    /\ calls = << "sanitize_status_text" >>
    /\ text = << SP, SP, "a", TL, TL, TL, DASH, DASH, GT >>
    /\ out = text

\* ---------------------------------------------------------------- status lines

\* The position of the first character at or after i that is not \s.
RECURSIVE SkipSpace(_, _)
SkipSpace(t, i) ==
    IF i > Len(t) \/ ~IsSpace(t[i]) THEN i ELSE SkipSpace(t, i + 1)

\* "^" under re.MULTILINE.
AtLineStart(t, p) == p = 1 \/ (p - 1 <= Len(t) /\ t[p - 1] = NL)

\* "$" under re.MULTILINE.
AtLineEnd(t, p) == p = Len(t) + 1 \/ (p <= Len(t) /\ t[p] = NL)

HasAt(t, i, c) == i <= Len(t) /\ t[i] = c

\* The position after "^\s*-\s*ステータス\s*:\s*" matched from the line start p,
\* or 0 when it does not match there.
StatusPrefixEnd(t, p) ==
    LET a == SkipSpace(t, p)
        b == SkipSpace(t, a + 1)
        c == SkipSpace(t, b + 1)
    IN  IF HasAt(t, a, DASH) /\ HasAt(t, b, SW) /\ HasAt(t, c, COLON)
        THEN SkipSpace(t, c + 1)
        ELSE 0

\* _STATUS_ANY_RE.search(t) is not None
StatusAny(t) ==
    \E p \in 1..Len(t) :
        /\ AtLineStart(t, p)
        /\ StatusPrefixEnd(t, p) # 0
        /\ StatusPrefixEnd(t, p) <= Len(t)

\* _STATUS_APPROVED_RE.search(t) is not None
StatusApproved(t) ==
    \E p \in 1..Len(t) :
        /\ AtLineStart(t, p)
        /\ LET d == StatusPrefixEnd(t, p)
           IN  /\ d # 0
               /\ HasAt(t, d, AW)
               /\ \E k \in (d + 1)..(Len(t) + 1) :
                      /\ AtLineEnd(t, k)
                      /\ \A q \in (d + 1)..(k - 1) : IsSpace(t[q])

\* ---------------------------------------------------------------- inline code and comments (C3, C4, C5)

StatusLine == << NL, DASH, SP, SW, COLON, SP, AW, NL >>

CommentFrags ==
    { << BSL >>,
      << BT >>,
      << BT, BT >>,
      << BT, BSL, BT >>,
      << "a" >>,
      << LT, BANG >>,
      << DASH, DASH >>,
      CommentOpen,
      CommentClose,
      StatusLine }

TypeComment == \E f \in CommentFrags : Type(f)

CallMask ==
    /\ calls = << >>
    /\ Apply("_mask_inline_code_spans", mask_inline_code_spans(out))

CallStripHtml ==
    /\ calls = << >>
    /\ Apply("strip_html_comment_blocks", strip_html_comment_blocks(out))

NextComment == TypeComment \/ CallMask \/ CallStripHtml \/ CallSanitize

SpecComment == Init /\ [][NextComment]_vars

\* Number of consecutive backslashes that end right before position p.
RECURSIVE BackslashesBefore(_, _)
BackslashesBefore(t, p) ==
    IF p <= 1 \/ t[p - 1] # BSL THEN 0 ELSE 1 + BackslashesBefore(t, p - 1)

\* A run of exactly w backticks starts at p, with no backtick on either side.
ExactRunAt(t, p, w) ==
    /\ p >= 1
    /\ p + w - 1 <= Len(t)
    /\ \A q \in p..(p + w - 1) : t[q] = BT
    /\ (p > 1 => t[p - 1] # BT)
    /\ (p + w <= Len(t) => t[p + w] # BT)

\* Position p lies in a span that begins before p.
InEarlierSpan(sp, p) == \E x \in sp : x[1] < p /\ p <= x[2]

StartsWith(t, w) == OccursAt(t, 1, w)

HasCommentClose(t) == \E i \in 1..Len(t) : OccursAt(t, i, CommentClose)

\* u is a subsequence of v from position j of v on.
RECURSIVE IsSubseqFrom(_, _, _, _)
IsSubseqFrom(u, i, v, j) ==
    IF i > Len(u) THEN TRUE
    ELSE IF j > Len(v) THEN FALSE
    ELSE IF u[i] = v[j] THEN IsSubseqFrom(u, i + 1, v, j + 1)
    ELSE IsSubseqFrom(u, i, v, j + 1)

EscapedOpener == << BSL, BT >> \o CommentOpen

\* C3: no inline code span opens at a backtick preceded by an odd number of
\* backslashes, and a backtick outside every span preceded by an even number
\* opens a span exactly when a run of the same length follows.  For a text
\* that starts with backslash, backtick, "<!--": the "<!--" is not masked;
\* strip_html_comment_blocks keeps the two characters before it and nothing of
\* what lies between the opener and the first real "-->"; without any "-->"
\* the sanitized text is the two characters alone, so no status line is
\* visible in it.
C3_EscapedBacktickDoesNotOpenSpan ==
    /\ calls = << "_mask_inline_code_spans" >> =>
           /\ \A x \in CodeSpans(text) : BackslashesBefore(text, x[1]) % 2 = 0
           /\ \A p \in 1..Len(text) :
                  ( /\ text[p] = BT
                    /\ (p > 1 => text[p - 1] # BT)
                    /\ BackslashesBefore(text, p) % 2 = 0
                    /\ ~InEarlierSpan(CodeSpans(text), p) )
                      => LET w == RunLen(text, p, BT)
                         IN  (\E q \in (p + w)..Len(text) : ExactRunAt(text, q, w))
                                 <=> (\E x \in CodeSpans(text) : x[1] = p)
           /\ StartsWith(text, EscapedOpener) => SubSeq(out, 3, 6) = CommentOpen
    /\ (calls = << "strip_html_comment_blocks" >> /\ StartsWith(text, EscapedOpener)) =>
           LET e == Find(mask_inline_code_spans(text), CommentClose, 7)
           IN  /\ StartsWith(out, << BSL, BT >>)
               /\ e = 0 => out = << BSL, BT >>
               /\ e # 0 => IsSubseqFrom(out, 3, text, e + 3)
    /\ ( /\ calls = << "sanitize_status_text" >>
         /\ StartsWith(text, EscapedOpener)
         /\ ~HasCommentClose(text) )
           => out = << BSL, BT >> /\ ~StatusAny(out)

\* An Approved status line after an escaped backtick and a comment opener is
\* not visible after sanitisation.
C3_Witness ==
    /\ calls = << "sanitize_status_text" >>
    /\ text = EscapedOpener \o StatusLine
    /\ StatusApproved(text)
    /\ ~StatusApproved(out)
    /\ out = << BSL, BT >>

SpanThenOpener == << BT, BSL, BT >> \o CommentOpen

\* C4: every inline code span runs from a run of N backticks to the first
\* later run of exactly N backticks, whatever lies between (backslashes and
\* runs of another length included); a run with no later run of its length is
\* no span, and a later run can still open one.  In a text that starts with
\* backtick, backslash, backtick, "<!--" and holds no "-->", the "<!--" is
\* outside code and strip_html_comment_blocks keeps the three characters
\* before it only.
C4_SpanClosesAtFirstEqualRun ==
    /\ calls = << "_mask_inline_code_spans" >> =>
           /\ \A x \in CodeSpans(text) :
                  LET w == RunLen(text, x[1], BT)
                  IN  /\ w >= 1
                      /\ x[2] - w + 1 >= x[1] + w
                      /\ ExactRunAt(text, x[2] - w + 1, w)
                      /\ \A q \in (x[1] + w)..(x[2] - w) : ~ExactRunAt(text, q, w)
           /\ \A p \in 1..Len(text) :
                  ( /\ text[p] = BT
                    /\ (p > 1 => text[p - 1] \notin {BT, BSL})
                    /\ ~InEarlierSpan(CodeSpans(text), p) )
                      => LET w == RunLen(text, p, BT)
                         IN  (\E q \in (p + w)..Len(text) : ExactRunAt(text, q, w))
                                 <=> (\E x \in CodeSpans(text) : x[1] = p)
           /\ \A p \in 1..Len(text) : out[p] = (IF InSpan(CodeSpans(text), p) THEN SP ELSE text[p])
    /\ ( /\ calls = << "strip_html_comment_blocks" >>
         /\ StartsWith(text, SpanThenOpener)
         /\ ~HasCommentClose(text) )
           => out = << BT, BSL, BT >>

\* The text of the claim: a span holding one backslash, then "<!--", then a
\* backtick.
C4_Witness ==
    /\ calls = << "strip_html_comment_blocks" >>
    /\ text = SpanThenOpener \o << BT >>
    /\ out = << BT, BSL, BT >>

\* What C5 says strip_html_comment_blocks returns: the text without its
\* matched "<!-- ... -->" ranges outside inline code, cut at the first "<!--"
\* outside inline code that has no "-->" after it.
RECURSIVE CommentsRemoved(_, _, _)
CommentsRemoved(t, m, i) ==
    LET s == Find(m, CommentOpen, i)
        e == IF s = 0 THEN 0 ELSE Find(m, CommentClose, s + Len(CommentOpen))
    IN  IF s = 0 THEN SubSeq(t, i, Len(t))
        ELSE IF e = 0 THEN SubSeq(t, i, s - 1)
        ELSE SubSeq(t, i, s - 1) \o CommentsRemoved(t, m, e + Len(CommentClose))

\* C5: strip_html_comment_blocks removes the matched comment ranges outside
\* inline code, keeps every "<!--" that is inside an inline code span, and
\* drops the text from an unmatched "<!--" outside inline code on.
C5_CommentsOutsideCodeRemoved ==
    calls = << "strip_html_comment_blocks" >> =>
        out = CommentsRemoved(text, mask_inline_code_spans(text), 1)

\* ---------------------------------------------------------------- lint-sot: paths and findings

\* A rel_path is its directory segments and its base name.
RelPath(dir, base) == [dir |-> dir, base |-> base]

\* rel_path.startswith(prefix + "/")
StartsWithDir(p, prefix) ==
    /\ Len(p.dir) >= Len(prefix)
    /\ SubSeq(p.dir, 1, Len(prefix)) = prefix

TemplateName == "_template.md"

\* rel_path is under docs/prd/ or docs/epics/ and is no _template.md.
IsPrdOrEpicDoc(p) ==
    /\ StartsWithDir(p, << "docs", "prd" >>) \/ StartsWithDir(p, << "docs", "epics" >>)
    /\ p.base # TemplateName

LintError(p, msg) == [path |-> p, message |-> msg]

\* is_approved_prd_or_epic
is_approved_prd_or_epic(p, t) ==
    IsPrdOrEpicDoc(p) /\ StatusApproved(sanitize_status_text(t))

\* lint_status_format with the indented-code stage in both variants.
lint_status_formatFullOnly(p, t) ==
    IF ~IsPrdOrEpicDoc(p) THEN << >>
    ELSE LET partial == sanitize_status_text(t)
             full == sanitize_status_text(t)
         IN  IF StatusAny(partial) /\ ~StatusAny(full)
             THEN << LintError(p, "status line is indented") >>
             ELSE << >>

\* lint_status_format
lint_status_format(p, t) ==
    IF ~IsPrdOrEpicDoc(p) THEN << >>
    ELSE LET partial == Then(strip_fenced_code_blocks(t), strip_html_comment_blocks)
             full == sanitize_status_text(t)
         IN  IF StatusAny(partial) /\ ~StatusAny(full)
             THEN << LintError(p, "status line is indented") >>
             ELSE << >>

\* The loop of strip_inline_code_spans from position i: text.find(delim, j)
\* takes the first place where the delimiter occurs, inside a longer run too.
RECURSIVE StripSpansLoop(_, _)
StripSpansLoop(t, i) ==
    IF i > Len(t) THEN << >>
    ELSE IF t[i] # BT
    THEN SubSeq(t, i, NextOf(t, i, { BT }) - 1) \o StripSpansLoop(t, NextOf(t, i, { BT }))
    ELSE LET w == RunLen(t, i, BT)
             delim == SubSeq(t, i, i + w - 1)
             k == Find(t, delim, i + w)
         IN  IF k = 0 THEN delim \o StripSpansLoop(t, i + w)
             ELSE StripSpansLoop(t, k + w)

strip_inline_code_spans(t) == StripSpansLoop(t, 1)

\* The words "lint-sot:" and "allow-html-comments" of the allow marker.
LW == "L"
HW == "H"

\* _ALLOW_HTML_COMMENTS_RE matches at position i of t.
AllowMarkerAt(t, i) ==
    /\ OccursAt(t, i, CommentOpen)
    /\ LET a == SkipSpace(t, i + Len(CommentOpen))
           b == SkipSpace(t, a + 1)
           c == SkipSpace(t, b + 1)
       IN  HasAt(t, a, LW) /\ HasAt(t, b, HW) /\ OccursAt(t, c, CommentClose)

HasAllowMarker(t) == \E i \in 1..Len(t) : AllowMarkerAt(t, i)

\* lint_placeholders
lint_placeholders(p, t) ==
    IF is_approved_prd_or_epic(p, t)
    THEN LET scrubbed == Then(strip_fenced_code_blocks(t), strip_inline_code_spans)
         IN  IF HasCommentOpen(scrubbed) /\ ~HasAllowMarker(scrubbed)
             THEN << LintError(p, "Approved doc contains HTML comments") >>
             ELSE << >>
    ELSE << >>

\* One lint rule run on the document as rel_path p.
Lint(name, p, result) ==
    /\ calls = << >>
    /\ calls' = << name >>
    /\ path' = p
    /\ prev' = out
    /\ out' = result
    /\ UNCHANGED <<text, n>>

\* ---------------------------------------------------------------- status format and placeholders (C6, C7)

StatusTop == << DASH, SP, SW, COLON, SP, AW, NL >>
AllowBody == << SP, LW, SP, HW, SP >>

LintFrags ==
    { StatusTop,
      << SP, SP >>,
      << TAB >>,
      << NL >>,
      << BT, BT, BT, NL >>,
      << BT >>,
      << BSL, BT >>,
      CommentOpen,
      CommentClose,
      AllowBody }

LintPaths ==
    { RelPath(<< "docs", "prd" >>, "a.md"),
      RelPath(<< "docs", "epics" >>, "a.md"),
      RelPath(<< "docs", "epics" >>, TemplateName),
      RelPath(<< "docs" >>, "a.md") }

TypeLint == \E f \in LintFrags : Type(f)

CallLintStatusFormat ==
    \E p \in LintPaths : Lint("lint_status_format", p, lint_status_format(p, text))

CallLintPlaceholders ==
    \E p \in LintPaths : Lint("lint_placeholders", p, lint_placeholders(p, text))

NextLint == TypeLint \/ CallLintStatusFormat \/ CallLintPlaceholders

SpecLint == Init /\ [][NextLint]_vars

\* A line that holds a status list item: blanks, then "- S: A".
IsStatusItemLine(line) ==
    \E k \in 0..Len(line) :
        /\ \A j \in 1..k : IsBlank(line[j])
        /\ Len(line) >= k + 6
        /\ SubSeq(line, k + 1, k + 6) = << DASH, SP, SW, COLON, SP, AW >>

\* A line that begins with a tab or with four spaces.
IsIndentedLine(line) ==
    /\ Len(line) >= 1
    /\ \/ line[1] = TAB
       \/ Len(line) >= 4 /\ \A j \in 1..4 : line[j] = SP

StatusItemLines(t) ==
    { i \in 1..Len(splitlines(t)) : IsStatusItemLine(splitlines(t)[i]) }

OnlyIndentedStatus(t) ==
    /\ StatusItemLines(t) # {}
    /\ \A i \in StatusItemLines(t) : IsIndentedLine(splitlines(t)[i])

StatusFormatRan == calls = << "lint_status_format" >> /\ IsPrdOrEpicDoc(path)

PlaceholdersRan == calls = << "lint_placeholders" >> /\ is_approved_prd_or_epic(path, text)

\* "<!--" outside fenced code and outside inline code spans.
OpenerOutsideCode(t) ==
    HasCommentOpen(mask_inline_code_spans(strip_fenced_code_blocks(t)))

\* C7: for an Approved non-template PRD/Epic document lint_placeholders
\* returns a Finding exactly when "<!--" occurs outside fenced code and
\* outside inline code spans and the allow marker is absent.
C7_PlaceholderFindingIffOpenerOutsideCode ==
    PlaceholdersRan =>
        LET scrubbed == strip_inline_code_spans(strip_fenced_code_blocks(text))
        IN  out # << >> <=> OpenerOutsideCode(text) /\ ~HasAllowMarker(scrubbed)

\* ---------------------------------------------------------------- sot_refs: reference resolution

SLASH == "/"
DOT == "."
QUERY == "?"
LBRACK == "["
RBRACK == "]"
LPAREN == "("
RPAREN == ")"

\* Whole words of a URL: the scheme with its colon ("https:" or "http:"),
\* the host raw.githubusercontent.com, another host.
HTTPS == "https:"
RAWHOST == "raw.githubusercontent.com"
GITHUB == "github.com"

DotDot == << DOT, DOT >>

\* str.strip()
RECURSIVE lstrip(_)
lstrip(t) == IF t # << >> /\ IsSpace(Head(t)) THEN lstrip(Tail(t)) ELSE t

RECURSIVE rstrip(_)
rstrip(t) ==
    IF t # << >> /\ IsSpace(t[Len(t)]) THEN rstrip(SubSeq(t, 1, Len(t) - 1)) ELSE t

strip(t) == rstrip(lstrip(t))

\* t.split("/") from position i, the segment begun so far being cur.
RECURSIVE SplitLoop(_, _, _)
SplitLoop(t, i, cur) ==
    IF i > Len(t) THEN << cur >>
    ELSE IF t[i] = SLASH THEN << cur >> \o SplitLoop(t, i + 1, << >>)
    ELSE SplitLoop(t, i + 1, Append(cur, t[i]))

split(t) == SplitLoop(t, 1, << >>)

\* [p for p in path.split("/") if p]
NonEmptyParts(t) == SelectSeq(split(t), LAMBDA p : p # << >>)

\* "/".join(parts)
RECURSIVE join(_)
join(parts) ==
    IF parts = << >> THEN << >>
    ELSE IF Len(parts) = 1 THEN parts[1]
    ELSE parts[1] \o << SLASH >> \o join(Tail(parts))

Contains(parts, p) == \E i \in 1..Len(parts) : parts[i] = p

\* parts.index(p)
index(parts, p) == CHOOSE i \in 1..Len(parts) :
    parts[i] = p /\ \A j \in 1..(i - 1) : parts[j] # p

\* is_safe_repo_relative without the ".." test.
is_safe_repo_relativeNoDotDot(p) ==
    /\ p # << >>
    /\ p[1] # SLASH
    /\ p # << DOT >>

\* is_safe_repo_relative
is_safe_repo_relative(p) ==
    /\ p # << >>
    /\ p[1] # SLASH
    /\ ~Contains(NonEmptyParts(p), DotDot)
    /\ p \notin { << DOT >>, DotDot }

\* The first index >= i of character c in t, 0 if there is none.
IndexOf(t, c, i) ==
    IF NextOf(t, i, { c }) > Len(t) THEN 0 ELSE NextOf(t, i, { c })

\* The match of \[[^\]]*\]\(([^)]+)\) that starts at the "[" at position i:
\* the bounds of its group, << 0, 0 >> if there is no match.
MdLinkAt(t, i) ==
    LET j == IndexOf(t, RBRACK, i + 1)
        k == IF j = 0 THEN 0 ELSE IndexOf(t, RPAREN, j + 2)
    IN  IF t[i] = LBRACK /\ j # 0 /\ j + 1 <= Len(t) /\ t[j + 1] = LPAREN /\ k >= j + 3
        THEN << j + 2, k - 1 >>
        ELSE << 0, 0 >>

\* re.search: the leftmost match from position i on.
RECURSIVE MdLinkSearch(_, _)
MdLinkSearch(t, i) ==
    IF i > Len(t) THEN << 0, 0 >>
    ELSE IF MdLinkAt(t, i) # << 0, 0 >> THEN MdLinkAt(t, i)
    ELSE MdLinkSearch(t, i + 1)

\* ref[1:-1].strip() when ref starts and ends with c (d), else ref.
Unwrap(t, c, d) ==
    IF t # << >> /\ t[1] = c /\ t[Len(t)] = d
    THEN strip(SubSeq(t, 2, Len(t) - 1))
    ELSE t

\* ref.split("#", 1)[0]
BeforeHash(t) ==
    LET h == IndexOf(t, HASH, 1)
    IN  IF h = 0 THEN t ELSE SubSeq(t, 1, h - 1)

\* normalize_reference
normalize_reference(ref) ==
    LET r0 == strip(ref)
        m == MdLinkSearch(r0, 1)
        r1 == IF m # << 0, 0 >> THEN strip(SubSeq(r0, m[1], m[2])) ELSE r0
        r2 == Unwrap(r1, LT, GT)
        r3 == Unwrap(r2, BT, BT)
    IN  strip(BeforeHash(r3))

\* The loop of posixpath.normpath over the components comps[i..], the kept
\* components so far being new; rooted tells whether the path starts with "/".
RECURSIVE NormLoop(_, _, _, _)
NormLoop(comps, i, new, rooted) ==
    IF i > Len(comps) THEN new
    ELSE LET comp == comps[i]
         IN  IF comp \in { << >>, << DOT >> } THEN NormLoop(comps, i + 1, new, rooted)
             ELSE IF \/ comp # DotDot
                     \/ ~rooted /\ new = << >>
                     \/ new # << >> /\ new[Len(new)] = DotDot
                  THEN NormLoop(comps, i + 1, Append(new, comp), rooted)
             ELSE IF new # << >>
                  THEN NormLoop(comps, i + 1, SubSeq(new, 1, Len(new) - 1), rooted)
             ELSE NormLoop(comps, i + 1, new, rooted)

\* os.path.normpath
normpath(p) ==
    IF p = << >> THEN << DOT >>
    ELSE LET slashes == IF p[1] # SLASH THEN 0
                        ELSE IF StartsWith(p, << SLASH, SLASH >>)
                                /\ ~StartsWith(p, << SLASH, SLASH, SLASH >>) THEN 2
                        ELSE 1
             body == join(NormLoop(split(p), 1, << >>, slashes > 0))
             res == [q \in 1..slashes |-> SLASH] \o body
         IN  IF res = << >> THEN << DOT >> ELSE res

\* The length of the common prefix of two component lists.
RECURSIVE CommonLen(_, _)
CommonLen(a, b) ==
    IF a = << >> \/ b = << >> \/ Head(a) # Head(b) THEN 0
    ELSE 1 + CommonLen(Tail(a), Tail(b))

\* os.path.relpath of two absolute normalised paths.
relpath(p, start) ==
    LET start_list == NonEmptyParts(start)
        path_list == NonEmptyParts(p)
        i == CommonLen(start_list, path_list)
        rel_list == [q \in 1..(Len(start_list) - i) |-> DotDot]
                        \o SubSeq(path_list, i + 1, Len(path_list))
    IN  IF rel_list = << >> THEN << DOT >> ELSE join(rel_list)

\* rel.replace("\\", "/")
BackslashToSlash(t) == [q \in 1..Len(t) |-> IF t[q] = BSL THEN SLASH ELSE t[q]]

\* urlparse of a reference that begins with the scheme word: netloc and path.
\* The first of "/", "?", "#" from position i on ends the netloc, the first
\* of "?", "#" ends the path.
RECURSIVE DelimFrom(_, _, _)
DelimFrom(t, i, delims) ==
    IF i > Len(t) THEN Len(t) + 1
    ELSE IF t[i] \in delims THEN i
    ELSE DelimFrom(t, i + 1, delims)

UrlNetloc(u) ==
    IF StartsWith(u, << SLASH, SLASH >>)
    THEN SubSeq(u, 3, DelimFrom(u, 3, { SLASH, QUERY, HASH }) - 1)
    ELSE << >>

UrlPath(u) ==
    LET from == IF StartsWith(u, << SLASH, SLASH >>)
                THEN DelimFrom(u, 3, { SLASH, QUERY, HASH })
                ELSE 1
    IN  SubSeq(u, from, DelimFrom(u, from, { QUERY, HASH }) - 1)

\* urlparse raises on a netloc with a bracket that is no IPv6 literal.
UrlRaises(u) == \E q \in 1..Len(UrlNetloc(u)) : UrlNetloc(u)[q] \in { LBRACK, RBRACK }

Raise == [ok |-> FALSE, rel |-> << >>]
Return(rel) == [ok |-> TRUE, rel |-> rel]

\* "if not is_safe_repo_relative(rel): raise ...; return rel"
ReturnIfSafe(rel) == IF is_safe_repo_relative(rel) THEN Return(rel) ELSE Raise

\* The http/https branch of resolve_ref_to_repo_path over the rest u of the
\* reference after its scheme.
ResolveUrl(u) ==
    LET parts == NonEmptyParts(UrlPath(u))
    IN  IF UrlRaises(u) THEN Raise
        ELSE IF Contains(parts, << "blob" >>)
        THEN IF Len(parts) <= index(parts, << "blob" >>) + 1 THEN Raise
             ELSE ReturnIfSafe(join(SubSeq(parts, index(parts, << "blob" >>) + 2, Len(parts))))
        ELSE IF Contains(parts, << "tree" >>)
        THEN IF Len(parts) <= index(parts, << "tree" >>) + 1 THEN Raise
             ELSE ReturnIfSafe(join(SubSeq(parts, index(parts, << "tree" >>) + 2, Len(parts))))
        ELSE IF UrlNetloc(u) = << RAWHOST >>
        THEN IF Len(parts) < 5 THEN Raise
             ELSE ReturnIfSafe(join(SubSeq(parts, 5, Len(parts))))
        ELSE Raise

\* resolve_ref_to_repo_path; repo_abs and abs_path are what os.path.realpath
\* gives for the repo root and for an absolute reference.
resolve_ref_to_repo_path(repo_abs, abs_path, ref0) ==
    LET ref == normalize_reference(ref0)
    IN  IF ref = << >> THEN Raise
        ELSE IF ref[1] = HTTPS THEN ResolveUrl(Tail(ref))
        ELSE IF ref[1] = SLASH
        THEN IF ~StartsWith(abs_path, repo_abs \o << SLASH >>) THEN Raise
             ELSE ReturnIfSafe(relpath(abs_path, repo_abs))
        ELSE LET r1 == IF StartsWith(ref, << DOT, SLASH >>) THEN SubSeq(ref, 3, Len(ref)) ELSE ref
             IN  ReturnIfSafe(normpath(BackslashToSlash(strip(r1))))

\* ---------------------------------------------------------------- reference safety (C8)

BlobPrefix == << HTTPS, SLASH, SLASH, GITHUB, SLASH, "o", SLASH, "r", SLASH, "blob", SLASH, "m", SLASH >>
TreePrefix == << HTTPS, SLASH, SLASH, GITHUB, SLASH, "o", SLASH, "r", SLASH, "tree", SLASH, "m", SLASH >>
RawPrefix == << HTTPS, SLASH, SLASH, RAWHOST, SLASH, "o", SLASH, "r", SLASH, "m", SLASH >>
EtcPasswd == << "etc", SLASH, "passwd" >>

RefFrags ==
    { BlobPrefix, TreePrefix, RawPrefix, EtcPasswd,
      << DOT, DOT, SLASH >>,
      << DOT >>,
      << SLASH >>,
      << BSL >>,
      << SP >> }

\* What os.path.realpath can give for an absolute reference:
\* "/", "/r", "/r/etc/passwd", "/rr/etc", "/etc/passwd".
AbsPaths ==
    { << SLASH >>,
      << SLASH, "r" >>,
      << SLASH, "r", SLASH, "etc", SLASH, "passwd" >>,
      << SLASH, "rr", SLASH, "etc" >>,
      << SLASH, "etc", SLASH, "passwd" >> }

\* What os.path.realpath can give for the repo root: "/", "/r", "/etc".
RepoRoots ==
    { << SLASH >>,
      << SLASH, "r" >>,
      << SLASH, "etc" >> }

\* os.path.isabs of the normalised reference.
IsAbsRef(ref0) == StartsWith(normalize_reference(ref0), << SLASH >>)

TypeRef == \E f \in RefFrags : Type(f)

\* realpath is consulted for an absolute reference only.
CallResolve ==
    \E repo_abs \in RepoRoots :
        \E abs_path \in IF IsAbsRef(text) THEN AbsPaths ELSE { << >> } :
            /\ calls = << >>
            /\ calls' = << "resolve_ref_to_repo_path" >>
            /\ path' = repo_abs
            /\ prev' = abs_path
            /\ out' = resolve_ref_to_repo_path(repo_abs, abs_path, text)
            /\ UNCHANGED <<text, n>>

NextRef == TypeRef \/ CallResolve

SpecRef == Init /\ [][NextRef]_vars

ResolveRan == calls = << "resolve_ref_to_repo_path" >>

\* The segments of a path, written out without the model's split.
HasDotDotSegment(p) ==
    \E i \in 1..(Len(p) - 1) :
        /\ p[i] = DOT /\ p[i + 1] = DOT
        /\ (i = 1 \/ p[i - 1] = SLASH)
        /\ (i + 1 = Len(p) \/ p[i + 2] = SLASH)

Traversal == << DOT, DOT, SLASH, DOT, DOT, SLASH >> \o EtcPasswd

\* C8: resolve_ref_to_repo_path raises or returns a non-empty path that is
\* not absolute, is not "." or "..", and has no ".." segment; the reference
\* ../../etc/passwd raises for every repo root, as a plain path and as the
\* path of a blob, tree or raw URL.
C8_ResolvedPathIsSafe ==
    ResolveRan =>
        /\ out.ok =>
               /\ out.rel # << >>
               /\ out.rel[1] # SLASH
               /\ out.rel # << DOT >>
               /\ ~HasDotDotSegment(out.rel)
        /\ text \in { Traversal, BlobPrefix \o Traversal, TreePrefix \o Traversal,
                      RawPrefix \o Traversal } => ~out.ok

C8_Witness ==
    /\ ResolveRan
    /\ text = BlobPrefix \o Traversal
    /\ path = << SLASH, "r" >>
    /\ ~out.ok

\* ---------------------------------------------------------------- lint-sot: research contract

\* File names of docs/research and what the code's tests on them give:
\* base.endswith(".md") and re.match(r"^\d{4}-\d{2}-\d{2}\.md$", base).
MarkdownNames == { "2026-02-20.md", "2026-2-20.md", "notes.md", "README.md", TemplateName }
DatedNames == { "2026-02-20.md" }

ResearchTemplates ==
    { RelPath(<< "docs", "research", "prd" >>, TemplateName),
      RelPath(<< "docs", "research", "epic" >>, TemplateName),
      RelPath(<< "docs", "research", "estimation" >>, TemplateName) }

\* The run of digits at position i: the position after it.
RECURSIVE SkipDigits(_, _)
SkipDigits(t, i) ==
    IF i > Len(t) \/ ~IsDigit(t[i]) THEN i ELSE SkipDigits(t, i + 1)

\* "\s*$" from position e, greedy: the last position of the whitespace run
\* from e that is a line end, 0 if there is none.
LastLineEnd(t, e) ==
    LET ends == { q \in e..SkipSpace(t, e) : AtLineEnd(t, q) }
    IN  IF ends = {} THEN 0 ELSE CHOOSE q \in ends : \A r \in ends : r <= q

\* "^\s*候補-(\d+)\s*$" matched from the line start p: the position where
\* the match of "$" is, 0 when it does not match there.
CandidateHeaderEnd(t, p) ==
    LET a == SkipSpace(t, p)
        d == SkipDigits(t, a + 2)
    IN  IF AtLineStart(t, p) /\ HasAt(t, a, KW) /\ HasAt(t, a + 1, DASH) /\ d > a + 2
        THEN LastLineEnd(t, d)
        ELSE 0

\* "^\s*#{1,6}\s" at p.
HeadingAt(t, p) ==
    LET a == SkipSpace(t, p)
        r == RunLen(t, a, HASH)
    IN  /\ AtLineStart(t, p)
        /\ r >= 1 /\ r <= 6
        /\ a + r <= Len(t) /\ IsSpace(t[a + r])

\* "^\s*---\s*$" at p.
RuleAt(t, p) ==
    LET a == SkipSpace(t, p)
    IN  /\ AtLineStart(t, p)
        /\ OccursAt(t, a, << DASH, DASH, DASH >>)
        /\ LastLineEnd(t, a + 3) # 0

\* The lookahead that ends a candidate block.
BlockEndsAt(t, p) ==
    \/ CandidateHeaderEnd(t, p) # 0
    \/ HeadingAt(t, p)
    \/ RuleAt(t, p)
    \/ p = Len(t) + 1

\* ".*?" from q: the first position at or after q where the lookahead holds.
BlockEnd(t, q) ==
    LET found == { r \in q..(Len(t) + 1) : BlockEndsAt(t, r) }
    IN  CHOOSE r \in found : \A x \in found : r <= x

\* len(list(_RESEARCH_CANDIDATE_BLOCK_RE.finditer(t))), searching from pos.
RECURSIVE CandidateBlocksFrom(_, _)
CandidateBlocksFrom(t, pos) ==
    IF pos > Len(t) THEN 0
    ELSE IF CandidateHeaderEnd(t, pos) = 0 THEN CandidateBlocksFrom(t, NextLineStart(t, pos + 1))
    ELSE 1 + CandidateBlocksFrom(t, BlockEnd(t, CandidateHeaderEnd(t, pos)))

CandidateBlocks(t) == CandidateBlocksFrom(t, 1)

MinCandidates == 5

\* The candidate-count rule with "<=" for "<".
CandidateCountErrsAtMost(p, contract_text) ==
    IF CandidateBlocks(contract_text) <= MinCandidates
    THEN << LintError(p, << "candidates", CandidateBlocks(contract_text) >>) >>
    ELSE << >>

\* The candidate-count rule: the Finding names the detected count.
CandidateCountErrs(p, contract_text) ==
    IF CandidateBlocks(contract_text) < MinCandidates
    THEN << LintError(p, << "candidates", CandidateBlocks(contract_text) >>) >>
    ELSE << >>

\* contract_text of lint_research_contract
ContractText(t) ==
    Then(Then(Then(strip_fenced_code_blocks(t), strip_indented_code_blocks),
              strip_inline_code_spans),
         strip_html_comment_blocks)

\* ---------------------------------------------------------------- numbered markers (C11)

DigitValue(c) ==
    CASE c = "0" -> 0 [] c = "1" -> 1 [] c = "2" -> 2 [] c = "3" -> 3 [] c = "4" -> 4
      [] c = "5" -> 5 [] c = "6" -> 6 [] c = "7" -> 7 [] c = "8" -> 8 [] c = "9" -> 9

\* int(m.group(1)) of a run of digits.
RECURSIVE int(_)
int(ds) ==
    IF ds = << >> THEN 0
    ELSE 10 * int(SubSeq(ds, 1, Len(ds) - 1)) + DigitValue(ds[Len(ds)])

\* list.sort() of a list of integers, by insertion.
RECURSIVE Insert(_, _)
Insert(sorted, v) ==
    IF sorted = << >> THEN << v >>
    ELSE IF v <= Head(sorted) THEN << v >> \o sorted
    ELSE << Head(sorted) >> \o Insert(Tail(sorted), v)

RECURSIVE sort(_)
sort(vs) == IF vs = << >> THEN << >> ELSE Insert(sort(Tail(vs)), Head(vs))

\* The loop of _unique_ints over the numbers vs[i..], with the list built so far.
RECURSIVE UniqueLoop(_, _, _)
UniqueLoop(vs, i, acc) ==
    IF i > Len(vs) THEN acc
    ELSE IF \E j \in 1..Len(acc) : acc[j] = vs[i] THEN UniqueLoop(vs, i + 1, acc)
    ELSE UniqueLoop(vs, i + 1, Append(acc, vs[i]))

\* _unique_ints without the "seen" test.
unique_intsKeepRepeats(vs) == sort(vs)

\* _unique_ints over the numbers of the matches.
unique_ints(vs) == sort(UniqueLoop(vs, 1, << >>))

\* "^\s*<word>-(\d+)\s*$" matched from the line start p: the position where
\* the match of "$" is, 0 when it does not match there.
MarkerEnd(t, p, word) ==
    LET a == SkipSpace(t, p)
        d == SkipDigits(t, a + 2)
    IN  IF AtLineStart(t, p) /\ HasAt(t, a, word) /\ HasAt(t, a + 1, DASH) /\ d > a + 2
        THEN LastLineEnd(t, d)
        ELSE 0

\* The digits of the marker matched from the line start p.
MarkerDigits(t, p) ==
    LET a == SkipSpace(t, p)
    IN  SubSeq(t, a + 2, SkipDigits(t, a + 2) - 1)

\* The matches of _RESEARCH_CANDIDATE_BLOCK_RE.finditer(t) from pos on: for
\* each its bounds [start, stop) and the digits of group(1).
RECURSIVE CandidateMatchesFrom(_, _)
CandidateMatchesFrom(t, pos) ==
    IF pos > Len(t) THEN << >>
    ELSE IF CandidateHeaderEnd(t, pos) = 0 THEN CandidateMatchesFrom(t, NextLineStart(t, pos + 1))
    ELSE LET stop == BlockEnd(t, CandidateHeaderEnd(t, pos))
         IN  << [start |-> pos, stop |-> stop, n_raw |-> MarkerDigits(t, pos)] >>
                 \o CandidateMatchesFrom(t, stop)

CandidateMatches(t) == CandidateMatchesFrom(t, 1)

\* The numbers of the candidate markers, in document order.
CandidateNumbers(t) ==
    [i \in 1..Len(CandidateMatches(t)) |-> int(CandidateMatches(t)[i].n_raw)]

\* The matches of "^\s*<word>-(\d+)\s*$" from pos on: the numbers of group(1).
RECURSIVE MarkerNumbersFrom(_, _, _)
MarkerNumbersFrom(t, pos, word) ==
    IF pos > Len(t) THEN << >>
    ELSE IF MarkerEnd(t, pos, word) = 0 THEN MarkerNumbersFrom(t, NextLineStart(t, pos + 1), word)
    ELSE << int(MarkerDigits(t, pos)) >>
             \o MarkerNumbersFrom(t, MarkerEnd(t, pos, word), word)

\* ---------------------------------------------------------------- research contract: candidate fields

\* The words of the field labels of a candidate block (概要, 適用可否, 仮説,
\* 反証, 採否理由, 根拠リンク, 捨て条件, リスク/検証); a label is the word
\* and a colon.
OverviewW == "overview"
ApplicabilityW == "applicability"
HypothesisW == "hypothesis"
RefutationW == "refutation"
RationaleW == "rationale"
EvidenceW == "evidence"
DiscardW == "discard"
RiskW == "risk"

\* _RESEARCH_CANDIDATE_REQUIRED_LABELS
RequiredLabels ==
    << OverviewW, ApplicabilityW, HypothesisW, RefutationW,
       RationaleW, EvidenceW, DiscardW, RiskW >>

\* The values of 適用可否.
YesW == "Yes"
PartialW == "Partial"
NoW == "No"

Label(w) == << w, COLON >>

\* The first index >= i of character c in t, Len(t) + 1 if there is none.
IndexOfOrEnd(t, c, i) == IF IndexOf(t, c, i) = 0 THEN Len(t) + 1 ELSE IndexOf(t, c, i)

\* "[ \t]*" from position i: the position after the run.
RECURSIVE BlankRunEnd(_, _)
BlankRunEnd(t, i) ==
    IF i > Len(t) \/ ~IsBlank(t[i]) THEN i ELSE BlankRunEnd(t, i + 1)

\* "^\s*<label>" matches at the line start p of b.
LabelAt(b, p, w) == AtLineStart(b, p) /\ OccursAt(b, SkipSpace(b, p), Label(w))

\* re.search(rf"^\s*{re.escape(label)}", block, re.MULTILINE) is not None
HasLabel(b, w) == \E p \in 1..Len(b) : LabelAt(b, p, w)

\* len(re.findall(r"^\s*適用可否:[ \t]*[^\n]*$", block, re.MULTILINE)) from pos on:
\* a match runs to the end of the line the label is on.
RECURSIVE ApplicabilityLinesFrom(_, _)
ApplicabilityLinesFrom(b, pos) ==
    IF pos > Len(b) THEN 0
    ELSE IF ~LabelAt(b, pos, ApplicabilityW) THEN ApplicabilityLinesFrom(b, NextLineStart(b, pos + 1))
    ELSE 1 + ApplicabilityLinesFrom(b, IndexOfOrEnd(b, NL, SkipSpace(b, pos)))

\* _RESEARCH_APPLICABILITY_RE.search(block) is not None
HasApplicabilityValue(b) ==
    \E p \in 1..Len(b) :
        /\ LabelAt(b, p, ApplicabilityW)
        /\ LET v == BlankRunEnd(b, SkipSpace(b, p) + 2)
           IN  /\ v <= Len(b) /\ b[v] \in { YesW, PartialW, NoW }
               /\ AtLineEnd(b, BlankRunEnd(b, v + 1))

\* _RESEARCH_EVIDENCE_URL_RE.search(line) is not None, for one line.
IsEvidenceUrlLine(line) ==
    LET a == SkipSpace(line, 1)
        u == SkipSpace(line, a + 1)
    IN  /\ HasAt(line, a, DASH)
        /\ OccursAt(line, u, << HTTPS, SLASH, SLASH >>)
        /\ u + 3 <= Len(line) /\ ~IsSpace(line[u + 3])

\* line.strip().startswith(label)
LineStartsWithLabel(line, w) == StartsWith(strip(line), Label(w))

\* The loop of has_candidate_evidence_url over lines[i..].
RECURSIVE EvidenceLoop(_, _, _)
EvidenceLoop(lines, i, in_evidence) ==
    IF i > Len(lines) THEN FALSE
    ELSE IF ~in_evidence
         THEN EvidenceLoop(lines, i + 1, LineStartsWithLabel(lines[i], EvidenceW))
    ELSE IF /\ \E q \in 1..Len(RequiredLabels) : LineStartsWithLabel(lines[i], RequiredLabels[q])
            /\ ~LineStartsWithLabel(lines[i], EvidenceW)
         THEN FALSE
    ELSE IF IsEvidenceUrlLine(lines[i]) THEN TRUE
    ELSE EvidenceLoop(lines, i + 1, TRUE)

\* has_candidate_evidence_url
has_candidate_evidence_url(b) == EvidenceLoop(splitlines(b), 1, FALSE)

\* The Findings about the labels missing from block b of candidate n_raw.
MissingLabelErrs(p, n_raw, b) ==
    LET missing == SelectSeq(RequiredLabels, LAMBDA w : ~HasLabel(b, w))
    IN  [q \in 1..Len(missing) |-> LintError(p, << "label", n_raw, missing[q] >>)]

\* The 適用可否 rule that accepts any number of lines.
ApplicabilityErrsAnyCount(p, n_raw, b) ==
    IF ~HasApplicabilityValue(b)
    THEN << LintError(p, << "applicability value", n_raw >>) >>
    ELSE << >>

\* The 適用可否 rule of a block of a document that is no template.
ApplicabilityErrs(p, n_raw, b) ==
    IF ApplicabilityLinesFrom(b, 1) # 1
    THEN << LintError(p, << "applicability count", n_raw >>) >>
    ELSE IF ~HasApplicabilityValue(b)
    THEN << LintError(p, << "applicability value", n_raw >>) >>
    ELSE << >>

\* The 根拠リンク rule of a block.
EvidenceErrs(p, n_raw, b) ==
    IF HasLabel(b, EvidenceW) /\ ~has_candidate_evidence_url(b)
    THEN << LintError(p, << "evidence url", n_raw >>) >>
    ELSE << >>

\* The body of the loop over candidate_blocks for one block.
BlockErrs(p, is_template, n_raw, b) ==
    MissingLabelErrs(p, n_raw, b)
        \o (IF is_template THEN << >> ELSE ApplicabilityErrs(p, n_raw, b))
        \o EvidenceErrs(p, n_raw, b)

\* The loop over candidate_blocks from the i-th match on.
RECURSIVE CandidateFormatErrsFrom(_, _, _, _, _)
CandidateFormatErrsFrom(p, is_template, t, ms, i) ==
    IF i > Len(ms) THEN << >>
    ELSE BlockErrs(p, is_template, ms[i].n_raw, SubSeq(t, ms[i].start, ms[i].stop - 1))
             \o CandidateFormatErrsFrom(p, is_template, t, ms, i + 1)

CandidateFormatErrs(p, is_template, t) ==
    CandidateFormatErrsFrom(p, is_template, t, CandidateMatches(t), 1)

\* ---------------------------------------------------------------- research contract: sections

\* Words of the section rules: タイムボックス, 打ち切り条件, the heading texts
\* 新規性判定（発火条件） and 隣接領域探索, the marker words 隣接領域 and
\* 抽象化, N/A and 適用マッピング.
TimeboxW == "timebox"
StopConditionW == "stop-condition"
NoveltyW == "novelty"
AdjacentSectionW == "adjacent-section"
AdjacentW == "adjacent"
AbstractionW == "abstraction"
NAW == "N/A"
MappingW == "mapping"
GateW == "comparison-gate"

\* _RESEARCH_NOVELTY_REQUIRED_TRIGGER_SUBSTRINGS: 直接の先行事例が2件未満, Unknown, Q6-5.
TriggerSubstrings == << "no-prior-art", "Unknown", "Q6-5" >>

\* _RESEARCH_NOVELTY_REQUIRED_SUBSTRINGS: the three above, PII, 監査, 性能, 可用性.
NoveltySubstrings ==
    TriggerSubstrings \o << "PII", "audit", "performance", "availability" >>

\* "^\s*##\s*(?:\d+\.\s*)?" matched from the line start p: the position
\* where the heading text must begin, 0 when it does not match.
HeadingTextStart(t, p) ==
    LET a == SkipSpace(t, p)
        b == SkipSpace(t, a + 2)
        d == SkipDigits(t, b)
    IN  IF ~(AtLineStart(t, p) /\ OccursAt(t, a, << HASH, HASH >>)) THEN 0
        ELSE IF d > b /\ HasAt(t, d, DOT) THEN SkipSpace(t, d + 1)
        ELSE b

\* _RESEARCH_NOVELTY_H2_RE matched from p: m.end(), or 0.
NoveltyHeadingEnd(t, p) ==
    LET c == HeadingTextStart(t, p)
    IN  IF c # 0 /\ HasAt(t, c, NoveltyW) THEN LastLineEnd(t, c + 1) ELSE 0

\* _RESEARCH_ADJACENT_H2_RE matched from p: m.end(), or 0.
AdjacentHeadingEnd(t, p) ==
    LET c == HeadingTextStart(t, p)
    IN  IF c # 0 /\ HasAt(t, c, AdjacentSectionW) THEN IndexOfOrEnd(t, NL, c + 1) ELSE 0

\* Mutant of AnyH2At: "##" opens a heading whatever follows it.
AnyH2AtAnyLevel(t, p) ==
    LET a == SkipSpace(t, p)
    IN  /\ AtLineStart(t, p)
        /\ OccursAt(t, a, << HASH, HASH >>)

\* _RESEARCH_ANY_H2_RE matches at p.
AnyH2At(t, p) ==
    LET a == SkipSpace(t, p)
    IN  /\ AtLineStart(t, p)
        /\ OccursAt(t, a, << HASH, HASH >>)
        /\ a + 2 <= Len(t) /\ IsSpace(t[a + 2])

\* _RESEARCH_ANY_H2_RE.search(text, start): m_next.start(), or len(text).
NextH2(t, q) ==
    LET found == { r \in q..Len(t) : AnyH2At(t, r) }
    IN  IF found = {} THEN Len(t) + 1 ELSE CHOOSE r \in found : \A x \in found : r <= x

\* _RESEARCH_EPIC_COMPARISON_H2_RE matched from p: m.end(), or 0.
GateHeadingEnd(t, p) ==
    LET c == HeadingTextStart(t, p)
    IN  IF c # 0 /\ HasAt(t, c, GateW) THEN IndexOfOrEnd(t, NL, c + 1) ELSE 0

\* pattern.search matched at p for the heading named w: m.end(), or 0.
HeadingEnd(t, p, w) ==
    CASE w = NoveltyW -> NoveltyHeadingEnd(t, p)
      [] w = AdjacentSectionW -> AdjacentHeadingEnd(t, p)
      [] OTHER -> GateHeadingEnd(t, p)

\* extract_h2_section for the heading text w, the search being at position p.
FirstOf(found) == CHOOSE q \in found : \A r \in found : q <= r

\* The body under the heading whose line ends just before position h.
SectionAfter(t, h) == SubSeq(t, h, NextH2(t, h) - 1)

SectionAmong(t, w, found) ==
    IF found = {} THEN << >>
    ELSE SectionAfter(t, HeadingEnd(t, FirstOf(found), w))

SectionFrom(t, p, w) ==
    SectionAmong(t, w, { q \in p..Len(t) : HeadingEnd(t, q, w) # 0 })

NoveltySection(t) == SectionFrom(t, 1, NoveltyW)
AdjacentSection(t) == SectionFrom(t, 1, AdjacentSectionW)

\* No "\n" in t[i..j].
NoNewline(t, i, j) == \A q \in i..j : t[q] # NL

\* ":\s*<word>\s*$" matches at the colon position c, for a word of ws.
ColonValueAt(t, c, ws) ==
    /\ HasAt(t, c, COLON)
    /\ LET v == SkipSpace(t, c + 1)
       IN  v <= Len(t) /\ t[v] \in ws /\ LastLineEnd(t, v + 1) # 0

\* re.search(r":\s*Yes\s*/\s*No\s*$", novelty, re.MULTILINE) is not None
HasYesSlashNo(t) ==
    \E c \in 1..Len(t) :
        /\ t[c] = COLON
        /\ LET y == SkipSpace(t, c + 1)
               s == SkipSpace(t, y + 1)
               o == SkipSpace(t, s + 1)
           IN  HasAt(t, y, YesW) /\ HasAt(t, s, SLASH) /\ HasAt(t, o, NoW)
                   /\ LastLineEnd(t, o + 1) # 0

\* re.search(rf"^\s*-\s*.*{s}.*:\s*(Yes|No)\s*$", novelty, re.MULTILINE) is not None
HasTriggerLine(t, s) ==
    \E p \in 1..Len(t) :
        /\ AtLineStart(t, p)
        /\ HasAt(t, SkipSpace(t, p), DASH)
        /\ LET a == SkipSpace(t, p)
           IN  \E b \in (a + 1)..SkipSpace(t, a + 1) :
                 \E k \in b..Len(t) :
                   \E c \in (k + 1)..Len(t) :
                       /\ t[k] = s
                       /\ NoNewline(t, b, c - 1)
                       /\ ColonValueAt(t, c, { YesW, NoW })

\* The match of _RESEARCH_NOVELTY_YES_BULLET_RE from the line start p: the
\* bounds of group(1) and m.end(), << 0, 0, 0 >> when it does not match.
\* The item starts after the longest run of whitespace that lets the rest
\* match and is the shortest that does.
YesBulletAt(t, p) ==
    LET a == SkipSpace(t, p)
        RestMatches(e) == \E c \in (e + 1)..SkipSpace(t, e + 1) : ColonValueAt(t, c, { YesW })
        ok == { be \in ((a + 1)..SkipSpace(t, a + 1)) \X ((a + 1)..Len(t)) :
                    /\ be[1] <= be[2]
                    /\ NoNewline(t, be[1], be[2])
                    /\ RestMatches(be[2]) }
        best == CHOOSE be \in ok : \A o \in ok :
                    be[1] > o[1] \/ (be[1] = o[1] /\ be[2] <= o[2])
        c == CHOOSE c \in (best[2] + 1)..SkipSpace(t, best[2] + 1) :
                    ColonValueAt(t, c, { YesW })
    IN  IF AtLineStart(t, p) /\ HasAt(t, a, DASH) /\ ok # {}
        THEN << best[1], best[2], LastLineEnd(t, SkipSpace(t, c + 1) + 1) >>
        ELSE << 0, 0, 0 >>

\* The loop of is_research_adjacent_exploration_required over the matches
\* of the Yes bullets from pos on.
RECURSIVE YesBulletNamesTrigger(_, _)
YesBulletNamesTrigger(t, pos) ==
    IF pos > Len(t) THEN FALSE
    ELSE LET m == YesBulletAt(t, pos)
         IN  IF m = << 0, 0, 0 >> THEN YesBulletNamesTrigger(t, NextLineStart(t, pos + 1))
             ELSE IF \E q \in m[1]..m[2] :
                        \E s \in 1..Len(NoveltySubstrings) : t[q] = NoveltySubstrings[s]
                  THEN TRUE
             ELSE YesBulletNamesTrigger(t, m[3])

\* is_research_adjacent_exploration_required
is_research_adjacent_exploration_required(t) ==
    YesBulletNamesTrigger(NoveltySection(t), 1)

\* re.search(r"^\s*隣接領域探索\s*:\s*N/A", adjacent_section, re.MULTILINE) is not None
HasAdjacentNA(sec) ==
    \E p \in 1..Len(sec) :
        /\ AtLineStart(sec, p)
        /\ LET a == SkipSpace(sec, p)
               c == SkipSpace(sec, a + 1)
           IN  HasAt(sec, a, AdjacentSectionW) /\ HasAt(sec, c, COLON)
                   /\ HasAt(sec, SkipSpace(sec, c + 1), NAW)

\* ---------------------------------------------------------------- research contract: external service comparison

PIPE == "|"
PERCENT == "%"
\* The full-width parentheses （ and ）.
FLP == "fw("
FRP == "fw)"

\* Words of the comparison gate: 外部サービス比較ゲート, Required, Skip, the
\* labels 比較対象サービス, 代替系統カバレッジ, 評価軸（重み）, 定量比較表, 判定理由.
RequiredW == "Required"
SkipW == "Skip"
ServicesLabel == << "services", COLON >>
CoverageLabel == << "coverage", COLON >>
WeightsLabel == << "axis", FLP, "weight", FRP, COLON >>
TableLabel == << "table", COLON >>
ReasonsLabel == << "reasons", COLON >>

\* _RESEARCH_EPIC_REQUIRED_TABLE_COLUMNS: サービス名, ベンダー, 初期費用, 月額費用,
\* レイテンシ, 可用性SLO, 運用負荷, 適用判定.
RequiredColumns ==
    << "service-name", "vendor", "initial-cost", "monthly-cost",
       "latency", "slo", "ops-load", "verdict" >>

\* A line of splitlines() without its line terminator.
Chomp(line) ==
    IF line # << >> /\ line[Len(line)] = NL
    THEN IF Len(line) >= 2 /\ line[Len(line) - 1] = CR
         THEN SubSeq(line, 1, Len(line) - 2)
         ELSE SubSeq(line, 1, Len(line) - 1)
    ELSE IF line # << >> /\ line[Len(line)] = CR THEN SubSeq(line, 1, Len(line) - 1)
    ELSE line

\* "\n".join(lines)
RECURSIVE JoinLines(_)
JoinLines(lines) ==
    IF lines = << >> THEN << >>
    ELSE IF Len(lines) = 1 THEN lines[1]
    ELSE lines[1] \o << NL >> \o JoinLines(Tail(lines))

\* The loop of extract_labeled_block over lines[i..].
RECURSIVE LabeledBlockLoop(_, _, _, _, _)
LabeledBlockLoop(lines, i, in_block, start_label, end_labels) ==
    IF i > Len(lines) THEN << >>
    ELSE IF ~in_block
         THEN LabeledBlockLoop(lines, i + 1, strip(lines[i]) = start_label,
                               start_label, end_labels)
    ELSE IF strip(lines[i]) \in end_labels THEN << >>
    ELSE << Chomp(lines[i]) >>
             \o LabeledBlockLoop(lines, i + 1, TRUE, start_label, end_labels)

\* extract_labeled_block
extract_labeled_block(section, start_label, end_labels) ==
    JoinLines(LabeledBlockLoop(splitlines(section), 1, FALSE, start_label, end_labels))

\* body.split("|") from position i, the cell begun so far being cur.
RECURSIVE SplitCells(_, _, _)
SplitCells(t, i, cur) ==
    IF i > Len(t) THEN << cur >>
    ELSE IF t[i] = PIPE THEN << cur >> \o SplitCells(t, i + 1, << >>)
    ELSE SplitCells(t, i + 1, Append(cur, t[i]))

\* parse_table_cells
parse_table_cells(row) ==
    LET s == strip(row)
        body0 == SubSeq(s, 2, Len(s))
        body == IF body0 # << >> /\ body0[Len(body0)] = PIPE
                THEN SubSeq(body0, 1, Len(body0) - 1)
                ELSE body0
        cells == SplitCells(body, 1, << >>)
    IN  [q \in 1..Len(cells) |-> strip(cells[q])]

\* re.fullmatch(r"\|\s*[-:| ]+\|?\s*", t) for a stripped row t.
IsAlignmentRow(t) ==
    /\ t # << >> /\ t[1] = PIPE
    /\ LET a == SkipSpace(t, 2)
       IN  \E b \in 2..a :
               /\ b <= Len(t)
               /\ \A q \in b..Len(t) : t[q] \in { DASH, COLON, PIPE, SP }

\* The "while j < len(lines)" loop of count_markdown_table_rows_with_headers.
RECURSIVE CountRows(_, _, _)
CountRows(lines, j, expected_cols) ==
    IF j > Len(lines) THEN 0
    ELSE LET t == strip(lines[j])
         IN  IF ~StartsWith(t, << PIPE >>) THEN 0
             ELSE IF IsAlignmentRow(t) THEN CountRows(lines, j + 1, expected_cols)
             ELSE IF Len(parse_table_cells(t)) # expected_cols
                  THEN CountRows(lines, j + 1, expected_cols)
             ELSE 1 + CountRows(lines, j + 1, expected_cols)

\* The "for i, line in enumerate(lines)" loop: -1 when no header row is found.
RECURSIVE TableLoop(_, _, _)
TableLoop(lines, i, required_headers) ==
    IF i > Len(lines) THEN -1
    ELSE LET s == strip(lines[i])
             header_cells == parse_table_cells(s)
         IN  IF ~StartsWith(s, << PIPE >>) THEN TableLoop(lines, i + 1, required_headers)
             ELSE IF ~(\A h \in 1..Len(required_headers) :
                          Contains(header_cells, << required_headers[h] >>))
                  THEN TableLoop(lines, i + 1, required_headers)
             ELSE CountRows(lines, i + 1, Len(header_cells))

\* count_markdown_table_rows_with_headers
count_markdown_table_rows_with_headers(section, required_headers) ==
    TableLoop(splitlines(section), 1, required_headers)

GateSection(t) == SectionFrom(t, 1, GateW)

\* "^\s*外部サービス比較ゲート:\s*" matched from the line start p: the position
\* of the value, 0 when it does not match.
GateValueStart(t, p) ==
    LET a == SkipSpace(t, p)
    IN  IF AtLineStart(t, p) /\ OccursAt(t, a, << GateW, COLON >>)
        THEN SkipSpace(t, a + 2)
        ELSE 0

\* _RESEARCH_EPIC_GATE_REQUIRED_RE.search(section) is not None
HasGateRequired(t) ==
    \E p \in 1..Len(t) :
        LET v == GateValueStart(t, p)
        IN  v # 0 /\ HasAt(t, v, RequiredW) /\ LastLineEnd(t, v + 1) # 0

\* _RESEARCH_EPIC_GATE_SKIP_RE.search(section) is not None
HasGateSkip(t) ==
    \E p \in 1..Len(t) :
        LET v == GateValueStart(t, p)
            g == IndexOf(t, FRP, v + 2)
        IN  /\ v # 0 /\ OccursAt(t, v, << SkipW, FLP >>)
            /\ g >= v + 3
            /\ NoNewline(t, v + 2, g - 1)
            /\ LastLineEnd(t, g + 1) # 0

\* re.search(rf"^\s*{re.escape(label)}\s*$", section, re.MULTILINE) is not None
HasLabelLine(t, label) ==
    \E p \in 1..Len(t) :
        /\ AtLineStart(t, p)
        /\ OccursAt(t, SkipSpace(t, p), label)
        /\ LastLineEnd(t, SkipSpace(t, p) + Len(label)) # 0

\* _RESEARCH_EPIC_SERVICE_BULLET_RE matched from the line start p: m.end(), or 0.
ServiceBulletEnd(t, p) ==
    LET a == SkipSpace(t, p)
        f == IndexOf(t, FLP, a + 1)
        g == IndexOf(t, FRP, f + 1)
    IN  IF /\ AtLineStart(t, p) /\ HasAt(t, a, DASH)
           /\ f # 0 /\ g >= f + 2
           /\ NoNewline(t, f + 1, g - 1)
           /\ \E b \in (a + 1)..SkipSpace(t, a + 1) : b < f /\ NoNewline(t, b, f - 1)
        THEN LastLineEnd(t, g + 1)
        ELSE 0

\* r"^\s*-\s+.+$" matched from the line start p: m.end(), or 0.
PlainBulletEnd(t, p) ==
    LET a == SkipSpace(t, p)
        starts == { b \in (a + 2)..SkipSpace(t, a + 1) : b <= Len(t) /\ t[b] # NL }
    IN  IF AtLineStart(t, p) /\ HasAt(t, a, DASH) /\ starts # {}
        THEN IndexOfOrEnd(t, NL, CHOOSE b \in starts : \A c \in starts : c <= b)
        ELSE 0

\* _RESEARCH_EPIC_WEIGHT_BULLET_RE matched from the line start p: m.end(), or 0.
WeightBulletEnd(t, p) ==
    LET a == SkipSpace(t, p)
        closes == { g \in 1..Len(t) :
                      /\ t[g] = FRP /\ g >= 4 /\ t[g - 1] = PERCENT
                      /\ LastLineEnd(t, g + 1) # 0
                      /\ \E nd \in 1..3 :
                             /\ g - 1 - nd >= 1
                             /\ \A q \in (g - 1 - nd)..(g - 2) : IsDigit(t[q])
                             /\ g - 2 - nd >= 1 /\ t[g - 2 - nd] = FLP
                             /\ \E b \in (a + 1)..SkipSpace(t, a + 1) :
                                    b < g - 2 - nd /\ NoNewline(t, b, g - 2 - nd) }
    IN  IF AtLineStart(t, p) /\ HasAt(t, a, DASH) /\ closes # {}
        THEN LastLineEnd(t, (CHOOSE g \in closes : \A h \in closes : h <= g) + 1)
        ELSE 0

\* len(pattern.findall(t)) from pos on, for the pattern named by kind.
BulletEnd(t, p, kind) ==
    CASE kind = "service" -> ServiceBulletEnd(t, p)
      [] kind = "weight" -> WeightBulletEnd(t, p)
      [] OTHER -> PlainBulletEnd(t, p)

RECURSIVE CountBullets(_, _, _)
CountBullets(t, pos, kind) ==
    IF pos > Len(t) THEN 0
    ELSE IF BulletEnd(t, pos, kind) = 0 THEN CountBullets(t, NextLineStart(t, pos + 1), kind)
    ELSE 1 + CountBullets(t, BulletEnd(t, pos, kind), kind)

MinServices == 3
MinFamilies == 3
MinWeights == 3
MinTableRows == 3

\* The table rule: no header row, or fewer than three data rows.
TableErrs(p, section) ==
    LET table_rows == count_markdown_table_rows_with_headers(
                          extract_labeled_block(section, TableLabel, { ReasonsLabel }),
                          RequiredColumns)
    IN  IF table_rows = -1 THEN << LintError(p, << "table columns" >>) >>
        ELSE IF table_rows < MinTableRows THEN << LintError(p, << "table rows" >>) >>
        ELSE << >>

\* The rules of a gate that is Required.
RequiredGateErrs(p, section) ==
    LET labels == << ServicesLabel, CoverageLabel, WeightsLabel, TableLabel, ReasonsLabel >>
        missing == SelectSeq(labels, LAMBDA l : ~HasLabelLine(section, l))
        service_block == extract_labeled_block(section, ServicesLabel,
                             { CoverageLabel, WeightsLabel, TableLabel, ReasonsLabel })
        family_block == extract_labeled_block(section, CoverageLabel,
                             { WeightsLabel, TableLabel, ReasonsLabel })
        weight_block == extract_labeled_block(section, WeightsLabel,
                             { TableLabel, ReasonsLabel })
        reason_block == extract_labeled_block(section, ReasonsLabel, {})
    IN  [q \in 1..Len(missing) |-> LintError(p, << "gate label", missing[q] >>)]
            \o (IF CountBullets(service_block, 1, "service") < MinServices
                THEN << LintError(p, << "services" >>) >> ELSE << >>)
            \o (IF CountBullets(family_block, 1, "plain") < MinFamilies
                THEN << LintError(p, << "coverage" >>) >> ELSE << >>)
            \o (IF CountBullets(weight_block, 1, "weight") < MinWeights
                THEN << LintError(p, << "weights" >>) >> ELSE << >>)
            \o TableErrs(p, section)
            \o (IF CountBullets(reason_block, 1, "plain") = 0
                THEN << LintError(p, << "reasons" >>) >> ELSE << >>)

\* lint_epic_external_service_comparison
GateErrs(p, section, has_required, has_skip) ==
    IF strip(section) = << >> THEN << LintError(p, << "gate heading" >>) >>
    ELSE IF has_required /\ has_skip THEN << LintError(p, << "gate both" >>) >>
    ELSE IF ~has_required /\ ~has_skip THEN << LintError(p, << "gate missing" >>) >>
    ELSE IF has_skip THEN << >>
    ELSE RequiredGateErrs(p, section)

GateErrsIn(p, section) ==
    GateErrs(p, section, HasGateRequired(section), HasGateSkip(section))

lint_epic_external_service_comparison(p, contract_text) ==
    GateErrsIn(p, GateSection(contract_text))


\* ---------------------------------------------------------------- research contract: the whole function

\* "needle in t" for a needle of several symbols
HasSubstring(t, w) == \E i \in 1..Len(t) : OccursAt(t, i, w)

\* The timebox and stop-condition rules.
TimeboxErrs(p, contract_text) ==
    (IF ~HasSubstring(contract_text, << TimeboxW, COLON >>)
     THEN << LintError(p, << "timebox" >>) >> ELSE << >>)
        \o (IF ~HasSubstring(contract_text, << StopConditionW, COLON >>)
            THEN << LintError(p, << "stop condition" >>) >> ELSE << >>)

\* The rules of the novelty section: none of them applies to a template.
NoveltyErrsWith(p, is_template, novelty, missing) ==
        IF is_template THEN << >>
        ELSE (IF strip(novelty) = << >>
              THEN << LintError(p, << "novelty heading" >>) >> ELSE << >>)
                 \o (IF HasYesSlashNo(novelty)
                     THEN << LintError(p, << "novelty yes/no" >>) >> ELSE << >>)
                 \o (IF strip(novelty) # << >>
                     THEN [q \in 1..Len(missing) |-> LintError(p, << "trigger", missing[q] >>)]
                     ELSE << >>)

NoveltyErrsIn(p, is_template, novelty) ==
    NoveltyErrsWith(p, is_template, novelty,
                    SelectSeq(TriggerSubstrings, LAMBDA s : ~HasTriggerLine(novelty, s)))

NoveltyErrs(p, is_template, contract_text) ==
    NoveltyErrsIn(p, is_template, NoveltySection(contract_text))

MinAdjacent == 2
MaxAbstractions == 3

\* The rules of the adjacent-exploration section.
AdjacentErrsWith(p, adjacent_section, has_adjacent_na, adjacent_required, adjacent, abstractions) ==
        IF adjacent_required
        THEN (IF has_adjacent_na
              THEN << LintError(p, << "adjacent required" >>) >> ELSE << >>)
                 \o (IF Len(adjacent) < MinAdjacent
                     THEN << LintError(p, << "adjacent count" >>) >> ELSE << >>)
                 \o (IF Len(abstractions) > MaxAbstractions
                     THEN << LintError(p, << "abstraction count", Len(abstractions) >>) >>
                     ELSE << >>)
                 \o (IF ~HasSubstring(adjacent_section, << MappingW >>)
                     THEN << LintError(p, << "mapping" >>) >> ELSE << >>)
        ELSE IF ~has_adjacent_na
        THEN << LintError(p, << "adjacent N/A" >>) >>
        ELSE << >>

AdjacentErrsIn(p, adjacent_section, adjacent_required) ==
    AdjacentErrsWith(p, adjacent_section, HasAdjacentNA(adjacent_section),
                     adjacent_required,
                     unique_ints(MarkerNumbersFrom(adjacent_section, 1, AdjacentW)),
                     unique_ints(MarkerNumbersFrom(adjacent_section, 1, AbstractionW)))

AdjacentErrs(p, is_template, contract_text) ==
    AdjacentErrsIn(p, AdjacentSection(contract_text),
                   IF ~is_template
                   THEN is_research_adjacent_exploration_required(contract_text)
                   ELSE FALSE)

\* The external-service comparison applies to dated documents of
\* docs/research/epic/ only.
EpicErrs(p, is_template, is_date_artifact, contract_text) ==
    IF StartsWithDir(p, << "docs", "research", "epic" >>) /\ ~is_template /\ is_date_artifact
    THEN lint_epic_external_service_comparison(p, contract_text)
    ELSE << >>

\* lint_research_contract
ResearchErrs(p, is_template, is_date_artifact, contract_text) ==
        IF ~StartsWithDir(p, << "docs", "research" >>) THEN << >>
        ELSE IF p.base \notin MarkdownNames THEN << >>
        ELSE IF p.base = "README.md" THEN << >>
        ELSE IF ~is_template /\ ~is_date_artifact
        THEN << LintError(p, << "file name" >>) >>
        ELSE CandidateCountErrs(p, contract_text)
                 \o CandidateFormatErrs(p, is_template, contract_text)
                 \o TimeboxErrs(p, contract_text)
                 \o NoveltyErrs(p, is_template, contract_text)
                 \o AdjacentErrs(p, is_template, contract_text)
                 \o EpicErrs(p, is_template, is_date_artifact, contract_text)

lint_research_contract(p, t) ==
    Then(ContractText(t),
         LAMBDA contract_text :
             ResearchErrs(p, p \in ResearchTemplates, p.base \in DatedNames, contract_text))


\* ---------------------------------------------------------------- candidate count (C10)

OneCandidate == << KW, DASH, "1", NL >>
TwoCandidates == << KW, DASH, "2", NL, KW, DASH, "3", NL >>

ResearchFrags ==
    { OneCandidate,
      TwoCandidates,
      << SP, SP, SP, SP >>,
      << SP >>,
      << NL >>,
      << "a" >>,
      << BT >>,
      << BT, BT, BT, NL >>,
      << HASH, SP, "a", NL >>,
      << DASH, DASH, DASH, NL >> }

DatedResearchDoc == RelPath(<< "docs", "research", "prd" >>, "2026-02-20.md")

ResearchPaths ==
    { DatedResearchDoc,
      RelPath(<< "docs", "research", "estimation" >>, "2026-02-20.md"),
      RelPath(<< "docs", "research", "prd" >>, TemplateName),
      RelPath(<< "docs", "research", "prd" >>, "2026-2-20.md"),
      RelPath(<< "docs", "research", "prd" >>, "notes.txt"),
      RelPath(<< "docs", "research" >>, "README.md"),
      RelPath(<< "docs", "prd" >>, "2026-02-20.md") }

TypeResearch == \E f \in ResearchFrags : Type(f)

CallLintResearchContract ==
    \E p \in ResearchPaths : Lint("lint_research_contract", p, lint_research_contract(p, text))

NextResearch == TypeResearch \/ CallLintResearchContract

SpecResearch == Init /\ [][NextResearch]_vars

\* A line that is a candidate marker: blanks, 候補-, digits, blanks.
IsMarkerLine(line) ==
    \E a \in 1..Len(line), d \in 1..Len(line) :
        /\ a + 2 <= d
        /\ \A q \in 1..(a - 1) : IsBlank(line[q])
        /\ line[a] = KW /\ line[a + 1] = DASH
        /\ \A q \in (a + 2)..d : IsDigit(line[q])
        /\ \A q \in (d + 1)..Len(line) : IsBlank(line[q]) \/ line[q] = NL

MarkerLines(t) == { i \in 1..Len(splitlines(t)) : IsMarkerLine(splitlines(t)[i]) }

CountFindings(errs) == SelectSeq(errs, LAMBDA f : f.message[1] = "candidates")

ResearchRan ==
    /\ calls = << "lint_research_contract" >>
    /\ StartsWithDir(path, << "docs", "research" >>)
    /\ path.base \in DatedNames

\* C10: on a dated research document lint_research_contract emits exactly
\* one count Finding, naming the number k of candidate markers left in the
\* contract text, when k < 5, and no count Finding when k >= 5.
C10_CountFindingBelowFive ==
    ResearchRan =>
        LET k == Cardinality(MarkerLines(ContractText(text)))
        IN  /\ k < 5 => CountFindings(out) = << LintError(path, << "candidates", k >>) >>
            /\ k >= 5 => CountFindings(out) = << >>

C10_Witness ==
    /\ ResearchRan
    /\ text = TwoCandidates \o TwoCandidates
    /\ CountFindings(out) = << LintError(DatedResearchDoc, << "candidates", 4 >>) >>

\* C11 (候補 family): the count compared with the minimum of 5 is the
\* number of distinct candidate numbers, so a count Finding is present
\* exactly when fewer than 5 distinct numbers occur.
C11_CandidateCountIsDistinctNumbers ==
    ResearchRan =>
        (CountFindings(out) # << >>
            <=> Len(unique_ints(CandidateNumbers(ContractText(text)))) < MinCandidates)

\* ---------------------------------------------------------------- candidate fields (C12)

\* A candidate block with the eight labels, its 適用可否 line holding v.
CandidateBlock(d, v) ==
    << KW, DASH, d, NL, OverviewW, COLON, NL, ApplicabilityW, COLON >> \o v
        \o << NL, HypothesisW, COLON, NL, RefutationW, COLON, NL, RationaleW, COLON, NL,
              EvidenceW, COLON, NL, DiscardW, COLON, NL, RiskW, COLON, NL >>

ThreeGoodBlocks ==
    CandidateBlock("1", << YesW >>) \o CandidateBlock("2", << SP, PartialW >>)
        \o CandidateBlock("3", << NoW, SP >>)

TwoGoodBlocks == CandidateBlock("4", << SP, YesW >>) \o CandidateBlock("5", << NoW >>)

\* A block that has no 適用可否 line at all.
BlockWithoutApplicability ==
    << KW, DASH, "8", NL, OverviewW, COLON, NL, HypothesisW, COLON, NL, RefutationW, COLON, NL,
       RationaleW, COLON, NL, EvidenceW, COLON, NL, DiscardW, COLON, NL, RiskW, COLON, NL >>

CandidateFrags ==
    { ThreeGoodBlocks,
      TwoGoodBlocks,
      CandidateBlock("7", << YesW, SP, "x" >>),
      BlockWithoutApplicability,
      << ApplicabilityW, COLON, NoW, NL >> }

CandidatePaths == { DatedResearchDoc, RelPath(<< "docs", "research", "prd" >>, TemplateName) }

\* The longest document typed.
MaxText == 160

TypeCandidate == \E f \in CandidateFrags : Len(text) + Len(f) <= MaxText /\ Type(f)

CallLintCandidates ==
    \E p \in CandidatePaths : Lint("lint_research_contract", p, lint_research_contract(p, text))

NextCandidate == TypeCandidate \/ CallLintCandidates

SpecCandidate == Init /\ [][NextCandidate]_vars

CandidatesRan == calls = << "lint_research_contract" >> /\ path \in CandidatePaths

\* The text of the i-th candidate block of the contract text.
BlockText(t, i) == SubSeq(t, CandidateMatches(t)[i].start, CandidateMatches(t)[i].stop - 1)

\* The lines of block b that begin, after leading blanks, with the label w.
LabelLines(b, w) ==
    { i \in 1..Len(splitlines(b)) : StartsWith(lstrip(splitlines(b)[i]), Label(w)) }

\* What line l holds after its label.
ValueOfLine(l) == strip(SubSeq(lstrip(l), Len(Label(ApplicabilityW)) + 1, Len(lstrip(l))))

OneApplicabilityLine(b) == Cardinality(LabelLines(b, ApplicabilityW)) = 1

ApplicabilityValueOk(b) ==
    \A i \in LabelLines(b, ApplicabilityW) :
        ValueOfLine(splitlines(b)[i]) \in { << YesW >>, << PartialW >>, << NoW >> }

WellFormedBlock(b) ==
    /\ \A q \in 1..Len(RequiredLabels) : LabelLines(b, RequiredLabels[q]) # {}
    /\ OneApplicabilityLine(b)
    /\ ApplicabilityValueOk(b)

LabelFindings(errs) == SelectSeq(errs, LAMBDA f : f.message[1] = "label")

ApplicabilityFindings(errs) ==
    SelectSeq(errs, LAMBDA f : f.message[1] \in { "applicability count", "applicability value" })

\* The Findings of errs about the fields of candidate n_raw.
BlockFindings(errs, n_raw) ==
    SelectSeq(LabelFindings(errs) \o ApplicabilityFindings(errs), LAMBDA f : f.message[2] = n_raw)

AllBlocksWellFormed(t) ==
    /\ Len(CandidateMatches(t)) >= MinCandidates
    /\ \A i \in 1..Len(CandidateMatches(t)) : WellFormedBlock(BlockText(t, i))

\* Five or more well-formed blocks: no count, label or 適用可否 Finding.
C12_WellFormedClean ==
    AllBlocksWellFormed(ContractText(text)) =>
        /\ CountFindings(out) = << >>
        /\ LabelFindings(out) = << >>
        /\ ApplicabilityFindings(out) = << >>

\* A block whose 適用可否 line is missing, repeated or ill-valued has a Finding.
C12_IllFormedReported ==
    LET t == ContractText(text)
    IN  \A i \in 1..Len(CandidateMatches(t)) :
            ~(OneApplicabilityLine(BlockText(t, i)) /\ ApplicabilityValueOk(BlockText(t, i)))
                => BlockFindings(out, CandidateMatches(t)[i].n_raw) # << >>

\* C12 as stated, for every research document: at least 5 well-formed
\* candidate blocks give no count, missing-label or 適用可否 Finding, and a
\* block with zero or several 適用可否 lines, or with a value outside Yes,
\* Partial and No, has a Finding.
C12_CandidateFieldsAnyDocument ==
    CandidatesRan => C12_WellFormedClean /\ C12_IllFormedReported

\* C12 (amended): at least 5 well-formed candidate blocks give no count,
\* missing-label or 適用可否 Finding in any research document; a block with
\* zero or several 適用可否 lines, or with a value outside Yes, Partial and
\* No, has a Finding in a document that is no template, while in a template
\* no 適用可否 Finding is emitted at all.
C12_CandidateFields ==
    CandidatesRan =>
        /\ C12_WellFormedClean
        /\ path \notin ResearchTemplates => C12_IllFormedReported
        /\ path \in ResearchTemplates => ApplicabilityFindings(out) = << >>

C12_Witness ==
    /\ CandidatesRan
    /\ path = DatedResearchDoc
    /\ AllBlocksWellFormed(ContractText(text))
    /\ ApplicabilityValueOk(ThreeGoodBlocks)

\* A template whose candidate block repeats the 適用可否 line.
C12_TemplateRepeatedLine ==
    /\ CandidatesRan
    /\ path \in ResearchTemplates
    /\ \E i \in 1..Len(CandidateMatches(ContractText(text))) :
           Cardinality(LabelLines(BlockText(ContractText(text), i), ApplicabilityW)) = 2

\* ---------------------------------------------------------------- comparison table (C13)

HeaderRow ==
    << PIPE, RequiredColumns[1], PIPE, RequiredColumns[2], PIPE, RequiredColumns[3], PIPE,
       RequiredColumns[4], PIPE, RequiredColumns[5], PIPE, RequiredColumns[6], PIPE,
       RequiredColumns[7], PIPE, RequiredColumns[8], PIPE, NL >>

\* The gate heading, the Required line, the table label and the header row.
TableTop ==
    << HASH, HASH, SP, GateW, NL, GateW, COLON, SP, RequiredW, NL >> \o TableLabel \o << NL >>
        \o HeaderRow

AlignRow ==
    << PIPE, DASH, PIPE, DASH, PIPE, DASH, PIPE, DASH, PIPE, DASH, PIPE, DASH, PIPE, DASH, PIPE,
       DASH, PIPE, NL >>

DataRow ==
    << PIPE, "a", PIPE, "b", PIPE, "c", PIPE, "d", PIPE, "e", PIPE, "f", PIPE, "g", PIPE, "h",
       PIPE, NL >>

ShortRow == << PIPE, "a", PIPE, "b", PIPE, NL >>

TableFrags == { TableTop, AlignRow, DataRow, ShortRow, << NL >> }

EpicResearchDoc == RelPath(<< "docs", "research", "epic" >>, "2026-02-20.md")

TypeTable == \E f \in TableFrags : Len(text) + Len(f) <= MaxText /\ Type(f)

CallLintEpicDoc ==
    Lint("lint_research_contract", EpicResearchDoc, lint_research_contract(EpicResearchDoc, text))

NextTable == TypeTable \/ CallLintEpicDoc

SpecTable == Init /\ [][NextTable]_vars

TableRan == calls = << "lint_research_contract" >> /\ path = EpicResearchDoc

\* The rows typed after the table top, one per fragment.
RowsTyped == splitlines(SubSeq(text, Len(TableTop) + 1, Len(text)))

\* The rows that follow the header without a break: a line that does not
\* begin with "|" ends the table.
TableRowsOf(rows) ==
    { i \in 1..Len(rows) : \A q \in 1..i : rows[q][1] = PIPE }

\* The data rows among them: not an alignment row, and of the header's width.
DataRowsOf(rows) == { i \in TableRowsOf(rows) : rows[i] = DataRow }

TableRowFindings(errs) == SelectSeq(errs, LAMBDA f : f.message[1] = "table rows")

\* C13: a header row with all required columns followed by k < 3 data rows
\* of the header's width (alignment rows and rows of another width not
\* counted) gives a Finding that states that fewer than 3 data rows were
\* found and reports the detected count k.
C13_TableRowFindingNamesCount ==
    (TableRan /\ StartsWith(text, TableTop)) =>
        LET k == Cardinality(DataRowsOf(RowsTyped))
        IN  k < MinTableRows =>
                TableRowFindings(out) = << LintError(path, << "table rows", k >>) >>

\* What the code does for such a table: one Finding, whose message carries
\* no count; with 3 data rows there is none.
C13_TableRowFindingWithoutCount ==
    (TableRan /\ StartsWith(text, TableTop)) =>
        LET k == Cardinality(DataRowsOf(RowsTyped))
        IN  /\ k < MinTableRows => TableRowFindings(out) = << LintError(path, << "table rows" >>) >>
            /\ k >= MinTableRows => TableRowFindings(out) = << >>

\* The example of the claim: one alignment row and 2 data rows.
C13_Example ==
    /\ TableRan
    /\ text = TableTop \o AlignRow \o DataRow \o DataRow
    /\ TableRowFindings(out) = << LintError(path, << "table rows" >>) >>

\* ---------------------------------------------------------------- adjacent exploration (C14)

NoveltyHead == << HASH, HASH, SP, NoveltyW, NL >>

\* A novelty section that answers a trigger with Yes.
NoveltyYes == NoveltyHead \o << DASH, SP, "Unknown", COLON, SP, YesW, NL >>

\* A novelty section whose only Yes bullet names no trigger.
NoveltyNo ==
    NoveltyHead \o << DASH, SP, "x", COLON, SP, YesW, NL, DASH, SP, "Unknown", COLON, SP, NoW, NL >>

AdjacentHead == << HASH, HASH, SP, AdjacentSectionW, NL >>

NALine == << AdjacentSectionW, COLON, SP, NAW, NL >>

AdjacentFrags ==
    { NoveltyYes,
      NoveltyNo,
      AdjacentHead,
      NALine,
      << AdjacentW, DASH, "1", NL >>,
      << AdjacentW, DASH, "2", NL >>,
      << DASH, SP, "PII", COLON, YesW, NL >> }

TypeAdjacent == \E f \in AdjacentFrags : Type(f)

CallLintAdjacent ==
    \E p \in CandidatePaths : Lint("lint_research_contract", p, lint_research_contract(p, text))

NextAdjacent == TypeAdjacent \/ CallLintAdjacent

SpecAdjacent == Init /\ [][NextAdjacent]_vars

\* The lines of the first section of t whose heading names w: from the line
\* after the heading to the line before the next "## " heading.
SectionLines(t, w) ==
    LET ls == splitlines(t)
        IsH2(l) == Len(l) >= 3 /\ l[1] = HASH /\ l[2] = HASH /\ l[3] = SP
        heads == { i \in 1..Len(ls) : IsH2(ls[i]) /\ Len(ls[i]) >= 4 /\ ls[i][4] = w }
        h == CHOOSE i \in heads : \A j \in heads : i <= j
        stop == { i \in (h + 1)..Len(ls) : IsH2(ls[i]) }
        last == IF stop = {} THEN Len(ls) ELSE (CHOOSE i \in stop : \A j \in stop : i <= j) - 1
    IN  IF heads = {} THEN << >> ELSE SubSeq(ls, h + 1, last)

\* A bullet "- <item>: Yes" whose item names one of the substrings.
IsYesTriggerBullet(l) ==
    /\ Len(l) >= 5
    /\ l[1] = DASH /\ l[2] = SP
    /\ \E s \in 1..Len(NoveltySubstrings) : l[3] = NoveltySubstrings[s]
    /\ l[4] = COLON
    /\ strip(SubSeq(l, 5, Len(l))) = << YesW >>

TriggerAnsweredYes(t) ==
    \E i \in 1..Len(SectionLines(t, NoveltyW)) : IsYesTriggerBullet(SectionLines(t, NoveltyW)[i])

OptOutPresent(t) ==
    \E i \in 1..Len(SectionLines(t, AdjacentSectionW)) :
        SectionLines(t, AdjacentSectionW)[i] = NALine

\* The numbers of the 隣接領域-N marker lines of the adjacent section.
AdjacentMarkers(t) ==
    { d \in { "1", "2" } :
        \E i \in 1..Len(SectionLines(t, AdjacentSectionW)) :
            SectionLines(t, AdjacentSectionW)[i] = << AdjacentW, DASH, d, NL >> }

AdjacentFindings(errs) ==
    SelectSeq(errs, LAMBDA f : f.message[1] \in
        { "adjacent required", "adjacent count", "abstraction count", "mapping", "adjacent N/A" })

HasFinding(errs, m) == \E i \in 1..Len(errs) : errs[i].message = m

AdjacentRan ==
    /\ calls = << "lint_research_contract" >>
    /\ path \in CandidatePaths
    /\ path \notin ResearchTemplates

\* C14: in a document that is no template, when a "- <item>: Yes" bullet of
\* the novelty section names a trigger substring, an N/A opt-out in the
\* adjacent section is a Finding and fewer than 2 distinct 隣接領域-N markers
\* is a Finding; when no trigger is answered Yes, there is a Finding about
\* the adjacent section exactly when the opt-out line is missing.
C14_AdjacentDependsOnNovelty ==
    AdjacentRan =>
        LET t == ContractText(text)
        IN  /\ TriggerAnsweredYes(t) =>
                /\ OptOutPresent(t) => HasFinding(out, << "adjacent required" >>)
                /\ Cardinality(AdjacentMarkers(t)) < MinAdjacent
                       => HasFinding(out, << "adjacent count" >>)
            /\ ~TriggerAnsweredYes(t) =>
                (AdjacentFindings(out) # << >> <=> ~OptOutPresent(t))

\* A trigger answered Yes, one marker written twice: the count Finding.
C14_Witness ==
    /\ AdjacentRan
    /\ TriggerAnsweredYes(ContractText(text))
    /\ Cardinality(AdjacentMarkers(ContractText(text))) = 1
    /\ Len(MarkerNumbersFrom(AdjacentSection(ContractText(text)), 1, AdjacentW)) = 2
    /\ HasFinding(out, << "adjacent count" >>)

\* ---------------------------------------------------------------- reference contract (C15)

\* The word 参照PRD of _SOT_REFERENCE_PRD_LINE_RE.
RefPrdW == "prd-ref"

\* One match of _SOT_REFERENCE_PRD_LINE_RE tried from the line start p:
\* "^\s*-\s*参照PRD[ \t]*:[ \t]*" and then either a backticked value that
\* only blanks follow up to the line end (group 1), or the rest of the line
\* (group 2).  stop is the line end, where the match ends.
RefLineAt(t, p) ==
    LET a == SkipSpace(t, p)
        b == SkipSpace(t, a + 1)
        c == b + 1 + BlankRun(t, b + 1)
        d == c + 1 + BlankRun(t, c + 1)
        e == NextOf(t, d, { NL })
        k == NextOf(t, d + 1, { BT, NL })
        quoted == /\ HasAt(t, d, BT)
                  /\ HasAt(t, k, BT)
                  /\ k + 1 + BlankRun(t, k + 1) = e
    IN  IF HasAt(t, a, DASH) /\ HasAt(t, b, RefPrdW) /\ HasAt(t, c, COLON)
        THEN [ok |-> TRUE,
              group1 |-> IF quoted THEN SubSeq(t, d + 1, k - 1) ELSE << >>,
              group2 |-> IF quoted THEN << >> ELSE SubSeq(t, d, e - 1),
              stop |-> e]
        ELSE [ok |-> FALSE, group1 |-> << >>, group2 |-> << >>, stop |-> 0]

\* _SOT_REFERENCE_PRD_LINE_RE.finditer from the line start pos on: the
\* matches in order, none overlapping the one before it.
RECURSIVE RefLinesFrom(_, _)
RefLinesFrom(t, pos) ==
    IF pos > Len(t) THEN << >>
    ELSE IF RefLineAt(t, pos).ok
         THEN << RefLineAt(t, pos) >>
                  \o RefLinesFrom(t, NextLineStart(t, RefLineAt(t, pos).stop + 1))
         ELSE RefLinesFrom(t, NextLineStart(t, pos + 1))

\* (m.group(1) or m.group(2) or "").strip()
RefPathOf(m) == strip(IF m.group1 # << >> THEN m.group1 ELSE m.group2)

DocsPrd == << "docs", SLASH, "prd" >>

\* os.path.commonprefix: the longest common prefix, character by character.
commonprefix(a, b) == SubSeq(a, 1, CommonLen(a, b))

\* os.path.commonpath of two absolute real paths.
commonpath(a, b) ==
    << SLASH >> \o join(SubSeq(NonEmptyParts(a), 1,
                               CommonLen(NonEmptyParts(a), NonEmptyParts(b))))

\* What the file system answers for one reference: the real path of
\* repo/docs/prd, the real path of repo/<normalized>, and whether that is
\* a regular file.
DiskAnswer(prd_root_abs, ref_abs, isfile) ==
    [prd_root_abs |-> prd_root_abs, ref_abs |-> ref_abs, isfile |-> isfile]

\* lint_sot_reference_contract
RefPathErrs(disk, p, ref_path, normalized) ==
    IF ref_path = << >>
    THEN << LintError(p, << "reference empty" >>) >>
    ELSE IF ~StartsWith(normalized, DocsPrd \o << SLASH >>)
    THEN << LintError(p, << "reference outside docs/prd" >>) >>
    ELSE IF \/ commonpath(disk.ref_abs, disk.prd_root_abs) # disk.prd_root_abs
            \/ ~disk.isfile
    THEN << LintError(p, << "reference not found", ref_path >>) >>
    ELSE << >>

RefPathErrsOf(disk, p, ref_path) ==
    RefPathErrs(disk, p, ref_path, BackslashToSlash(normpath(ref_path)))

RefLinesErrs(disk, p, refs) ==
    IF Len(refs) = 0 THEN << LintError(p, << "reference missing" >>) >>
    ELSE IF Len(refs) > 1 THEN << LintError(p, << "reference multiple" >>) >>
    ELSE RefPathErrsOf(disk, p, RefPathOf(refs[1]))

lint_sot_reference_contract(disk, p, t) ==
    IF ~StartsWithDir(p, << "docs", "epics" >>) THEN << >>
    ELSE IF ~is_approved_prd_or_epic(p, t) THEN << >>
    ELSE RefLinesErrs(disk, p, RefLinesFrom(sanitize_status_text(t), 1))

\* Whether the rule gets as far as the file system for this document.
OneDocsPrdRef(refs) ==
    /\ Len(refs) = 1
    /\ StartsWith(BackslashToSlash(normpath(RefPathOf(refs[1]))), DocsPrd \o << SLASH >>)

ConsultsDisk(p, t) ==
    /\ StartsWithDir(p, << "docs", "epics" >>)
    /\ is_approved_prd_or_epic(p, t)
    /\ OneDocsPrdRef(RefLinesFrom(sanitize_status_text(t), 1))

RefPrefix == << DASH, SP, RefPrdW, COLON, SP >>
PrdFile == DocsPrd \o << SLASH, "a.md" >>

RefContractFrags ==
    { StatusTop,
      RefPrefix \o PrdFile \o << NL >>,
      RefPrefix \o << BT >> \o PrdFile \o << BT, SP, NL >>,
      RefPrefix \o << BT, BT, NL >>,
      RefPrefix \o DocsPrd \o << SLASH, DOT, DOT, SLASH, "epics", SLASH, "a.md", NL >>,
      << DASH, NL, RefPrdW, SP, COLON, "docs", BSL, "prd", BSL, "a.md", NL >>,
      << BT, BT, BT, NL >>,
      << SP, SP, SP, SP >> }

RefContractPaths ==
    { RelPath(<< "docs", "epics" >>, "a.md"),
      RelPath(<< "docs", "epics" >>, TemplateName),
      RelPath(<< "docs", "prd" >>, "a.md") }

RepoDocsPrd == << SLASH, "r", SLASH >> \o DocsPrd

\* The file system is not consulted.
NoDisk == DiskAnswer(<< >>, << >>, FALSE)

\* The answers of the file system: the file is there, it is missing, a
\* symbolic link leads out of docs/prd (to a sibling whose name begins with
\* "prd", or out of the repository), the path is a directory.
Disks ==
    { DiskAnswer(RepoDocsPrd, RepoDocsPrd \o << SLASH, "a.md" >>, TRUE),
      DiskAnswer(RepoDocsPrd, RepoDocsPrd \o << SLASH, "a.md" >>, FALSE),
      DiskAnswer(RepoDocsPrd, RepoDocsPrd \o << "x", SLASH, "a.md" >>, TRUE),
      DiskAnswer(RepoDocsPrd, << SLASH >> \o EtcPasswd, TRUE),
      DiskAnswer(RepoDocsPrd, RepoDocsPrd, FALSE) }

TypeRefContract == \E f \in RefContractFrags : Type(f)

\* realpath and isfile are consulted only for a single reference that
\* normalises to a path under docs/prd/.
CallLintSotReference ==
    \E p \in RefContractPaths :
        \E disk \in IF ConsultsDisk(p, text) THEN Disks ELSE { NoDisk } :
            /\ calls = << >>
            /\ calls' = << "lint_sot_reference_contract" >>
            /\ path' = p
            /\ prev' = disk
            /\ out' = lint_sot_reference_contract(disk, p, text)
            /\ UNCHANGED <<text, n>>

NextRefContract == TypeRefContract \/ CallLintSotReference

SpecRefContract == Init /\ [][NextRefContract]_vars

RefContractRan == calls = << "lint_sot_reference_contract" >>

\* The last position at or before i that holds no white space, 0 if none.
LastNonSpace(t, i) ==
    LET found == { q \in 1..i : ~IsSpace(t[q]) }
    IN  IF found = {} THEN 0 ELSE CHOOSE q \in found : \A r \in found : r <= q

\* The positions of the word 参照PRD that make a "- 参照PRD:" item: blanks and
\* a colon follow it, a dash precedes it with only white space between, and
\* only white space lies between that dash and the start of a line.
RefItems(t) ==
    { b \in 1..Len(t) :
        /\ t[b] = RefPrdW
        /\ HasAt(t, b + 1 + BlankRun(t, b + 1), COLON)
        /\ LET a == LastNonSpace(t, b - 1)
           IN  /\ a >= 1
               /\ t[a] = DASH
               /\ \E p \in 1..a : AtLineStart(t, p) /\ \A q \in p..(a - 1) : IsSpace(t[q]) }

\* The value of the item whose word is at b: the rest of the line behind the
\* colon, trimmed, and taken out of its backticks when one pair wraps it.
RefValue(t, b) ==
    LET c == b + 1 + BlankRun(t, b + 1)
        rest == strip(SubSeq(t, c + 1, NextOf(t, c + 1, { NL }) - 1))
        inner == SubSeq(rest, 2, Len(rest) - 1)
    IN  IF /\ Len(rest) >= 2
           /\ rest[1] = BT
           /\ rest[Len(rest)] = BT
           /\ \A q \in 1..Len(inner) : inner[q] # BT
        THEN strip(inner)
        ELSE rest

\* The components of a are the first components of b.
IsUnder(a, b) ==
    /\ Len(NonEmptyParts(a)) <= Len(NonEmptyParts(b))
    /\ SubSeq(NonEmptyParts(b), 1, Len(NonEmptyParts(a))) = NonEmptyParts(a)

\* The document names one reference, and it resolves to a file under docs/prd.
ReferenceResolves(disk, t) ==
    /\ Cardinality(RefItems(t)) = 1
    /\ LET value == RefValue(t, CHOOSE b \in RefItems(t) : TRUE)
           parts == split(BackslashToSlash(normpath(value)))
       IN  /\ value # << >>
           /\ Len(parts) >= 3
           /\ parts[1] = << "docs" >>
           /\ parts[2] = << "prd" >>
           /\ IsUnder(disk.prd_root_abs, disk.ref_abs)
           /\ disk.isfile

\* C15: on an Approved document under docs/epics/ (a _template.md never
\* counts as Approved) lint_sot_reference_contract returns no Finding exactly
\* when the sanitized text has one "- 参照PRD:" item whose value is not empty,
\* normalises (os.path.normpath, backslashes turned into slashes) to a path
\* under docs/prd/, and whose real path lies under the real path of docs/prd
\* and is a regular file; otherwise it returns exactly one Finding.  On any
\* other document it returns none.
C15_ReferenceContract ==
    RefContractRan =>
        IF StartsWithDir(path, << "docs", "epics" >>) /\ is_approved_prd_or_epic(path, text)
        THEN /\ out = << >> <=> ReferenceResolves(prev, sanitize_status_text(text))
             /\ out # << >> => Len(out) = 1
        ELSE out = << >>

\* An Approved Epic whose single reference resolves, and one of each failure.
C15_Witness ==
    /\ RefContractRan
    /\ path = RelPath(<< "docs", "epics" >>, "a.md")
    /\ text = StatusTop \o RefPrefix \o << BT >> \o PrdFile \o << BT, SP, NL >>
    /\ prev = DiskAnswer(RepoDocsPrd, RepoDocsPrd \o << SLASH, "a.md" >>, TRUE)
    /\ out = << >>

\* ---------------------------------------------------------------- reference normalization (C16)

SQ == "'"
DQ == "\""

NormalizeFrags ==
    { << SP >>,
      << LBRACK, "t", RBRACK, LPAREN >>,
      << RPAREN >>,
      << LT >>,
      << GT >>,
      << SQ >>,
      << DQ >>,
      << BT >>,
      << "a" >>,
      << HASH, "f" >>,
      << QUERY, "q" >> }

TypeNormalize == \E f \in NormalizeFrags : Type(f)

CallNormalize == Apply("normalize_reference", normalize_reference(out))

NextNormalize == TypeNormalize \/ CallNormalize

SpecNormalize == Init /\ [][NextNormalize]_vars

NormalizeRan == Len(calls) = 1 /\ calls[1] = "normalize_reference"

\* The first of the pairs of cs that wraps t is taken off, once.
UnwrapOneOf(t, cs) ==
    IF \E q \in 1..Len(cs) : Unwrap(t, cs[q], cs[q]) # t
    THEN LET q == CHOOSE q \in 1..Len(cs) :
                      /\ Unwrap(t, cs[q], cs[q]) # t
                      /\ \A r \in 1..(q - 1) : Unwrap(t, cs[r], cs[r]) = t
         IN  Unwrap(t, cs[q], cs[q])
    ELSE t

\* The text before the first "#" or "?".
BeforeFragmentOrQuery(t) == SubSeq(t, 1, NextOf(t, 1, { HASH, QUERY }) - 1)

\* The normalization in the order of the reference resolver's description.
NormalizeInOrder(ref) ==
    LET r0 == strip(ref)
        m == MdLinkSearch(r0, 1)
        r1 == IF m # << 0, 0 >> THEN strip(SubSeq(r0, m[1], m[2])) ELSE r0
        r2 == Unwrap(r1, LT, GT)
        r3 == UnwrapOneOf(r2, << SQ, DQ, BT >>)
    IN  strip(BeforeFragmentOrQuery(r3))

\* C16: normalize_reference trims, unwraps one Markdown link, unwraps angle
\* brackets, unwraps matching single quotes, double quotes or backticks, and
\* cuts off the "#fragment" and "?query" tail, in this order.
C16_NormalizationOrder ==
    NormalizeRan => out = NormalizeInOrder(prev)

\* The part of the order that normalize_reference does follow: without
\* quotes and without "?" the two agree.
C16_OrderWithoutQuotesAndQuery ==
    (NormalizeRan /\ \A q \in 1..Len(prev) : prev[q] \notin { SQ, DQ, QUERY })
        => out = NormalizeInOrder(prev)

\* A quoted reference keeps its quotes, a query tail stays.
C16_QuotesAndQueryKept ==
    NormalizeRan =>
        /\ prev = << SQ, "a", SQ >> => out = << SQ, "a", SQ >>
        /\ prev = << DQ, "a", DQ >> => out = << DQ, "a", DQ >>
        /\ prev = << "a", QUERY, "q" >> => out = << "a", QUERY, "q" >>

\* ---------------------------------------------------------------- the file system

\* A file system as the lint run sees it: the directories and the regular
\* files (absolute real paths), the symbolic links with their targets, the
\* files whose bytes are not UTF-8, and the text of the others.
FileSystem(dirs, files, links, undecodable) ==
    [dirs |-> dirs, files |-> files, links |-> links, undecodable |-> undecodable]

\* os.path.join of two paths.
pathjoin(a, b) ==
    IF b # << >> /\ b[1] = SLASH THEN b
    ELSE IF a = << >> \/ a[Len(a)] = SLASH THEN a \o b
    ELSE a \o << SLASH >> \o b

\* os.path.dirname
dirname(p) ==
    LET slashes == { q \in 1..Len(p) : p[q] = SLASH }
        i == IF slashes = {} THEN 0 ELSE CHOOSE q \in slashes : \A r \in slashes : r <= q
        head == SubSeq(p, 1, i)
        others == { q \in 1..Len(head) : head[q] # SLASH }
    IN  IF others # {}
        THEN SubSeq(head, 1, CHOOSE q \in others : \A r \in others : r <= q)
        ELSE head

\* The absolute path of the components cur.
AbsOf(cur) == << SLASH >> \o join(cur)

\* posixpath._joinrealpath over the components comps[i..] of an absolute
\* path, cur being the components resolved so far: "." and empty components
\* are skipped, ".." drops the last resolved component, a symbolic link is
\* replaced by where it leads.
RECURSIVE RealLoop(_, _, _, _)
RealLoop(fs, comps, i, cur) ==
    IF i > Len(comps) THEN cur
    ELSE LET name == comps[i]
             newpath == Append(cur, name)
         IN  IF name \in { << >>, << DOT >> } THEN RealLoop(fs, comps, i + 1, cur)
             ELSE IF name = DotDot
             THEN RealLoop(fs, comps, i + 1, SubSeq(cur, 1, Len(cur) - 1))
             ELSE IF AbsOf(newpath) \in DOMAIN fs.links
             THEN LET target == fs.links[AbsOf(newpath)]
                      base == IF target[1] = SLASH THEN << >> ELSE cur
                  IN  RealLoop(fs, comps, i + 1, RealLoop(fs, split(target), 1, base))
             ELSE RealLoop(fs, comps, i + 1, newpath)

\* os.path.realpath of an absolute path.
realpath(fs, p) == AbsOf(RealLoop(fs, split(p), 1, << >>))

\* os.path.exists and os.path.isfile of a path without ".." components:
\* links are followed.
exists(fs, p) == realpath(fs, p) \in fs.dirs \cup fs.files
isfile(fs, p) == realpath(fs, p) \in fs.files

\* ---------------------------------------------------------------- relative links

MAILTO == "mailto:"

\* The symbols of the alphabet that are runs of [a-zA-Z0-9+.-], and those
\* of them that begin with a letter.
SchemeSymbols ==
    { "a", "b", "f", "q", "t", "x", "r", "docs", "prd", "epics", "etc", "in", "out", "a.md", "x.md",
      DASH, DOT, "+", "0", "1", "2" }
LetterSymbols ==
    { "a", "b", "f", "q", "t", "x", "r", "docs", "prd", "epics", "etc", "in", "out", "a.md", "x.md" }

\* The position after the run of scheme symbols that starts at i.
RECURSIVE SkipScheme(_, _)
SkipScheme(t, i) ==
    IF i > Len(t) \/ t[i] \notin SchemeSymbols THEN i ELSE SkipScheme(t, i + 1)

\* re.match(r"^[a-zA-Z][a-zA-Z0-9+.-]*://", t)
HasScheme(t) ==
    \E w \in { HTTPS, MAILTO } :
        \/ OccursAt(t, 1, << w, SLASH, SLASH >>)
        \/ /\ t # << >>
           /\ t[1] \in LetterSymbols
           /\ \/ OccursAt(t, SkipScheme(t, 1), << COLON, SLASH, SLASH >>)
              \/ OccursAt(t, SkipScheme(t, 1), << w, SLASH, SLASH >>)

\* is_external_or_fragment
is_external_or_fragment(target) ==
    LET t == strip(target)
    IN  \/ t = << >>
        \/ t[1] = HASH
        \/ HasScheme(t)
        \/ t[1] = MAILTO

\* _MD_LINK_RE.finditer from position i: the stripped groups that are not empty.
RECURSIVE MdLinkTargetsFrom(_, _)
MdLinkTargetsFrom(t, i) ==
    LET j == NextOf(t, i, { LBRACK })
    IN  IF j > Len(t) THEN << >>
        ELSE IF MdLinkAt(t, j) = << 0, 0 >> THEN MdLinkTargetsFrom(t, j + 1)
        ELSE LET m == MdLinkAt(t, j)
                 target == strip(SubSeq(t, m[1], m[2]))
             IN  (IF target = << >> THEN << >> ELSE << target >>)
                     \o MdLinkTargetsFrom(t, m[2] + 2)

RefDefMaxIndent == 3

\* _MD_REF_DEF_RE tried at the line start p: the bounds of its group,
\* << 0, 0 >> if it does not match there.
RefDefAt(t, p) ==
    LET b == p + BlankRun(t, p)
        j == IndexOf(t, RBRACK, b + 1)
        s == SkipSpace(t, j + 2)
    IN  IF /\ b - p <= RefDefMaxIndent
           /\ HasAt(t, b, LBRACK)
           /\ j >= b + 2
           /\ HasAt(t, j + 1, COLON)
           /\ s <= Len(t)
        THEN << s, NextOf(t, s, { SP, TAB, NL, CR }) - 1 >>
        ELSE << 0, 0 >>

\* _MD_REF_DEF_RE.finditer from the line start pos on.
RECURSIVE RefDefTargetsFrom(_, _)
RefDefTargetsFrom(t, pos) ==
    IF pos > Len(t) THEN << >>
    ELSE IF RefDefAt(t, pos) = << 0, 0 >> THEN RefDefTargetsFrom(t, NextLineStart(t, pos + 1))
    ELSE LET m == RefDefAt(t, pos)
         IN  << SubSeq(t, m[1], m[2]) >> \o RefDefTargetsFrom(t, NextLineStart(t, m[2] + 2))

\* parse_md_link_targets
parse_md_link_targets(t) ==
    LET scrubbed == Then(strip_fenced_code_blocks(t), strip_inline_code_spans)
    IN  MdLinkTargetsFrom(scrubbed, 1) \o RefDefTargetsFrom(scrubbed, 1)

\* t.split()[0] of a text that holds a character other than white space.
FirstWord(t) ==
    LET s == lstrip(t) IN SubSeq(s, 1, NextOf(s, 1, { SP, TAB, NL, CR }) - 1)

\* normalize_target
normalize_target(target) ==
    LET t0 == strip(target)
        t1 == Unwrap(t0, LT, GT)
        t2 == IF Unwrap(t1, DQ, DQ) # t1 THEN Unwrap(t1, DQ, DQ) ELSE Unwrap(t1, SQ, SQ)
        t3 == IF \E q \in 1..Len(t2) : t2[q] \in { SP, TAB, NL } THEN FirstWord(t2) ELSE t2
    IN  strip(SubSeq(t3, 1, NextOf(t3, 1, { HASH, QUERY }) - 1))

\* resolve_to_repo_relative; << >> stands for None.
RelativeUnder(t, abs_candidate, repo_abs) ==
    IF t = << >> THEN << >>
    ELSE IF ~StartsWith(abs_candidate, repo_abs \o << SLASH >>) /\ abs_candidate # repo_abs
    THEN << >>
    ELSE relpath(abs_candidate, repo_abs)

ResolveNormalized(fs, repo, file_abs, t) ==
    RelativeUnder(t,
                  IF t[1] = SLASH
                  THEN realpath(fs, pathjoin(repo, Tail(t)))
                  ELSE realpath(fs, pathjoin(dirname(file_abs), t)),
                  realpath(fs, repo))

resolve_to_repo_relative(fs, repo, file_abs, target) ==
    ResolveNormalized(fs, repo, file_abs, normalize_target(target))

\* One target of lint_relative_links.
LinkErrsAt(fs, repo, p, raw, rel) ==
    IF is_external_or_fragment(raw) THEN << >>
    ELSE IF rel = << >> THEN << LintError(p, << "unsafe link", raw >>) >>
    ELSE IF ~exists(fs, pathjoin(repo, rel)) THEN << LintError(p, << "broken link", raw, rel >>) >>
    ELSE << >>

LinkErrs(fs, repo, p, file_abs, raw) ==
    LinkErrsAt(fs, repo, p, raw, resolve_to_repo_relative(fs, repo, file_abs, raw))

\* rel_path as text.
RECURSIVE PathText(_)
PathText(p) ==
    IF p.dir = << >> THEN << p.base >>
    ELSE << Head(p.dir), SLASH >> \o PathText([dir |-> Tail(p.dir), base |-> p.base])

\* The loop of lint_relative_links over the targets raws[i..].
RECURSIVE LinkLoop(_, _, _, _, _)
LinkLoop(fs, repo, p, raws, i) ==
    IF i > Len(raws) THEN << >>
    ELSE LinkErrs(fs, repo, p, pathjoin(repo, PathText(p)), raws[i])
             \o LinkLoop(fs, repo, p, raws, i + 1)

\* lint_relative_links
lint_relative_links(fs, repo, p, t) == LinkLoop(fs, repo, p, parse_md_link_targets(t), 1)

\* ---------------------------------------------------------------- the lint run (C17, C18)

\* is_safe_repo_relative_root
is_safe_repo_relative_root(root) ==
    LET p0 == strip(BackslashToSlash(root))
        p == IF StartsWith(p0, << DOT, SLASH >>) THEN SubSeq(p0, 3, Len(p0)) ELSE p0
    IN  /\ root # << >>
        /\ root[1] # SLASH
        /\ p \notin { << DOT >>, DotDot }
        /\ NonEmptyParts(p) # << >>
        /\ ~Contains(NonEmptyParts(p), DotDot)

\* The last component of a path.
basename(p) == split(p)[Len(split(p))]

\* The entries of the directory d.
Children(fs, d) ==
    { c \in fs.dirs \cup fs.files \cup DOMAIN fs.links : c # d /\ dirname(c) = d }

\* DirEntry.is_dir (links are followed) and os.path.islink.
IsDirEntry(fs, c) == realpath(fs, c) \in fs.dirs
islink(fs, c) == c \in DOMAIN fs.links

\* The names of the file system in the order of their code points.
NameOrder ==
    << ".git", "2026-02-20.md", "a.md", "b.md", "docs", "epics", "etc", "n.txt", "out", "prd", "r",
       "research", "z.md", "zbin" >>

Rank(name) == CHOOSE q \in 1..Len(NameOrder) : NameOrder[q] = name[1]

\* list.sort() of the names of a set of entries: the entries by name.
RECURSIVE SortByName(_)
SortByName(entries) ==
    IF entries = {} THEN << >>
    ELSE LET first == CHOOSE c \in entries :
                          \A d \in entries : Rank(basename(c)) <= Rank(basename(d))
         IN  << first >> \o SortByName(entries \ { first })

SkippedDirs == { << ".git" >>, << ".agentic-sdd" >> }

MdSymbols == MarkdownNames \cup { "a.md", "b.md", "x.md", "z.md" }

\* name.endswith(".md")
EndsWithMd(name) == name # << >> /\ name[Len(name)] \in MdSymbols

\* The walk of iter_markdown_files over the directories tops[i..]: the .md
\* files of a directory by name, then its directories by name, .git and
\* .agentic-sdd left out; os.walk does not descend into a linked directory.
RECURSIVE WalkLoop(_, _, _)
WalkLoop(fs, tops, i) ==
    IF i > Len(tops) THEN << >>
    ELSE LET top == tops[i]
             filenames == { c \in Children(fs, top) : ~IsDirEntry(fs, c) /\ EndsWithMd(basename(c)) }
             dirnames == { c \in Children(fs, top) :
                             IsDirEntry(fs, c) /\ basename(c) \notin SkippedDirs /\ ~islink(fs, c) }
         IN  SortByName(filenames)
                 \o WalkLoop(fs, SortByName(dirnames), 1)
                 \o WalkLoop(fs, tops, i + 1)

\* iter_markdown_files
iter_markdown_files(fs, root) ==
    IF root \in fs.dirs THEN WalkLoop(fs, << root >>, 1) ELSE << >>

\* rel_path as the record the rules take.
ToRelPath(rel) ==
    LET comps == split(rel)
    IN  RelPath([q \in 1..(Len(comps) - 1) |-> comps[q][1]], comps[Len(comps)][1])

\* What os.path.realpath and os.path.isfile answer lint_sot_reference_contract.
DiskAt(fs, repo, ref_abs) ==
    DiskAnswer(realpath(fs, pathjoin(repo, DocsPrd)), ref_abs, isfile(fs, ref_abs))

DiskFor(fs, repo, p, t) ==
    IF ~ConsultsDisk(p, t) THEN NoDisk
    ELSE DiskAt(fs, repo,
                realpath(fs, pathjoin(repo,
                    BackslashToSlash(normpath(
                        RefPathOf(RefLinesFrom(sanitize_status_text(t), 1)[1]))))))

RuleNames ==
    << "lint_placeholders", "lint_status_format", "lint_research_contract",
       "lint_sot_reference_contract", "lint_relative_links" >>

\* The Findings of the k-th rule of lint_paths on the file rel (text t).
RuleErrs(k, fs, repo, rel, t) ==
    LET p == ToRelPath(rel)
    IN  CASE k = 1 -> lint_placeholders(p, t)
          [] k = 2 -> lint_status_format(p, t)
          [] k = 3 -> lint_research_contract(p, t)
          [] k = 4 -> lint_sot_reference_contract(DiskFor(fs, repo, p, t), p, t)
          [] k = 5 -> lint_relative_links(fs, repo, p, t)

\* A Finding with its path as text and its message as a tuple, as the run
\* collects them.
AsCollected(k, errs) ==
    [q \in 1..Len(errs) |->
        LintError(PathText(errs[q].path),
                  IF k \in { 1, 2 } THEN << errs[q].message >> ELSE errs[q].message)]

\* The three early exits of lint_paths for one root: its Finding, << >>
\* when the root is linted.
RootErrs(fs, repo, root) ==
    LET root_abs == realpath(fs, pathjoin(repo, root))
        repo_abs == realpath(fs, repo)
    IN  IF ~is_safe_repo_relative_root(root)
        THEN << LintError(root, << "Root path must be repo-relative" >>) >>
        ELSE IF ~StartsWith(root_abs, repo_abs \o << SLASH >>) /\ root_abs # repo_abs
        THEN << LintError(root, << "Root path resolves outside repo" >>) >>
        ELSE IF ~exists(fs, root_abs)
        THEN << LintError(root, << "Path does not exist" >>) >>
        ELSE << >>

\* The repository of the run.
Repo == << SLASH, "r" >>
InRepo(rel) == Repo \o << SLASH >> \o rel

DocsDir == << "docs" >>
EpicsDir == << "docs", SLASH, "epics" >>
ResearchDir == << "docs", SLASH, "research" >>
BinDir == << "docs", SLASH, "zbin" >>
OutLink == << "docs", SLASH, "out" >>

MdLink(target) == << LBRACK, "t", RBRACK, LPAREN >> \o target \o << RPAREN, NL >>

\* An Approved Epic with a comment opener, no reference and a broken link.
EpicDoc == StatusTop \o CommentOpen \o << NL >> \o MdLink(<< "x.md" >>)
\* An Approved Epic with nothing to report.
CleanEpicDoc == StatusTop \o RefPrefix \o PrdFile \o << NL >>
\* A PRD whose status line is indented.
PrdDoc == << SP, SP, SP, SP >> \o StatusTop \o MdLink(<< DOT, DOT, SLASH, "epics", SLASH, "a.md" >>)
\* A research document with one candidate and a link out of the repository.
ResearchDoc ==
    OneCandidate \o MdLink(<< DOT, DOT, SLASH, DOT, DOT, SLASH, DOT, DOT, SLASH, DOT, DOT, SLASH, "etc" >>)

RepoFiles ==
    (InRepo(DocsPrd \o << SLASH, "a.md" >>) :> PrdDoc)
    @@ (InRepo(EpicsDir \o << SLASH, "a.md" >>) :> EpicDoc)
    @@ (InRepo(EpicsDir \o << SLASH, "b.md" >>) :> CleanEpicDoc)
    @@ (InRepo(EpicsDir \o << SLASH, "n.txt" >>) :> << "x" >>)
    @@ (InRepo(ResearchDir \o << SLASH, "prd", SLASH, "2026-02-20.md" >>) :> ResearchDoc)
    @@ (InRepo(DocsDir \o << SLASH, ".git", SLASH, "a.md" >>) :> EpicDoc)
    @@ (InRepo(BinDir \o << SLASH, "z.md" >>) :> << >>)

\* docs/zbin/z.md is not UTF-8; docs/out is a link out of the repository.
RepoFs ==
    [dirs |-> { << SLASH >>, << SLASH, "etc" >>, Repo, InRepo(DocsDir), InRepo(DocsPrd),
                InRepo(EpicsDir), InRepo(ResearchDir), InRepo(ResearchDir \o << SLASH, "prd" >>),
                InRepo(DocsDir \o << SLASH, ".git" >>), InRepo(BinDir) },
     files |-> DOMAIN RepoFiles,
     links |-> (InRepo(OutLink) :> << SLASH, "etc" >>),
     undecodable |-> { InRepo(BinDir \o << SLASH, "z.md" >>) },
     text |-> RepoFiles]

\* The roots a run can be given.
Roots ==
    { DocsDir, EpicsDir, ResearchDir, BinDir, OutLink,
      << "docs", SLASH, "none" >>,
      << SLASH, "etc" >>,
      << DOT, DOT, SLASH, "x" >> }

MaxRoots == 3

TypeRoot == \E root \in Roots : Len(text) < MaxRoots /\ Type(<< root >>)

\* args.paths: "docs" when no root is given.
ArgPaths == IF text = << >> THEN << DocsDir >> ELSE text

\* Where the run stands: in the loop over the roots ("root"), before
\* read_text of the first of files ("read"), before rule number rule on it
\* ("rule"), returned from main with a status ("exit"), or ended by an
\* exception with a status ("raised").
At(pc, root, files, rule, status) ==
    [pc |-> pc, root |-> root, files |-> files, rule |-> rule, status |-> status]

Started == calls # << >>
Exited == Started /\ path.pc = "exit"
Raised == Started /\ path.pc = "raised"

\* main is called: lint_paths starts with no Findings.
StartMain ==
    /\ calls = << >>
    /\ calls' = << << "lint_paths" >> >>
    /\ path' = At("root", 1, << >>, 0, 0)
    /\ prev' = << >>
    /\ out' = << >>
    /\ UNCHANGED <<text, n>>

\* One pass of "for root in roots" up to the file loop.
EnterRoot ==
    /\ Started
    /\ path.pc = "root"
    /\ path.root <= Len(ArgPaths)
    /\ LET root == ArgPaths[path.root]
           errs == RootErrs(RepoFs, Repo, root)
           files == iter_markdown_files(RepoFs, realpath(RepoFs, pathjoin(Repo, root)))
       IN  /\ out' = out \o errs
           /\ calls' = Append(calls, << "root", root >>)
           /\ path' = IF errs # << >> \/ files = << >>
                      THEN At("root", path.root + 1, << >>, 0, 0)
                      ELSE At("read", path.root, files, 0, 0)
    /\ UNCHANGED <<text, n, prev>>

FindingsStatus == 1
FatalStatus == 1

\* read_text of the next file; a file that is not UTF-8 raises
\* UnicodeDecodeError, which nothing catches: the interpreter prints the
\* traceback and leaves with status 1.
ReadText ==
    /\ Started
    /\ path.pc = "read"
    /\ calls' = Append(calls, << "read_text", relpath(path.files[1], Repo) >>)
    /\ IF path.files[1] \in RepoFs.undecodable
       THEN /\ path' = At("raised", path.root, << >>, 0, FatalStatus)
            /\ prev' = << << "Traceback", "UnicodeDecodeError" >> >>
       ELSE /\ path' = At("rule", path.root, path.files, 1, 0)
            /\ prev' = prev
    /\ UNCHANGED <<text, n, out>>

RuleCount == 5

\* Where the run goes after a rule that returned errs.
AfterRuleFailFast(at, errs) ==
    IF at.rule < RuleCount /\ errs = << >> THEN At("rule", at.root, at.files, at.rule + 1, 0)
    ELSE IF Len(at.files) > 1 THEN At("read", at.root, Tail(at.files), 0, 0)
    ELSE At("root", at.root + 1, << >>, 0, 0)

AfterRule(at, errs) ==
    IF at.rule < RuleCount THEN At("rule", at.root, at.files, at.rule + 1, 0)
    ELSE IF Len(at.files) > 1 THEN At("read", at.root, Tail(at.files), 0, 0)
    ELSE At("root", at.root + 1, << >>, 0, 0)

\* errs.extend(rule(...)) for the rule the run stands at.
RunRule(k) ==
    /\ Started
    /\ path.pc = "rule"
    /\ path.rule = k
    /\ LET rel == relpath(path.files[1], Repo)
           errs == AsCollected(k, RuleErrs(k, RepoFs, Repo, rel, RepoFs.text[path.files[1]]))
       IN  /\ out' = out \o errs
           /\ calls' = Append(calls, << RuleNames[k], rel >>)
           /\ path' = AfterRule(path, SubSeq(out', Len(out) + 1, Len(out')))
    /\ UNCHANGED <<text, n, prev>>

\* What main prints for the Findings errs.
Printed(errs) ==
    IF errs = << >> THEN << << "[lint-sot] OK" >> >>
    ELSE << << "[lint-sot] BLOCKED" >> >>
             \o [q \in 1..Len(errs) |-> << "-", errs[q].path, errs[q].message >>]
             \o << << "Next actions:" >> >>

\* lint_paths returns; main prints and returns its status.
ReturnMain ==
    /\ Started
    /\ path.pc = "root"
    /\ path.root > Len(ArgPaths)
    /\ calls' = Append(calls, << "return" >>)
    /\ prev' = Printed(out)
    /\ path' = At("exit", path.root, << >>, 0, IF out # << >> THEN FindingsStatus ELSE 0)
    /\ UNCHANGED <<text, n, out>>

NextLintRun ==
    \/ TypeRoot
    \/ StartMain
    \/ EnterRoot
    \/ ReadText
    \/ \E k \in 1..RuleCount : RunRule(k)
    \/ ReturnMain

SpecLintRun == Init /\ [][NextLintRun]_vars

\* The Findings of the five rules on one file, in the order of lint_paths.
AllRulesOn(abs) ==
    LET rel == relpath(abs, Repo)
        t == RepoFs.text[abs]
    IN  AsCollected(1, RuleErrs(1, RepoFs, Repo, rel, t))
            \o AsCollected(2, RuleErrs(2, RepoFs, Repo, rel, t))
            \o AsCollected(3, RuleErrs(3, RepoFs, Repo, rel, t))
            \o AsCollected(4, RuleErrs(4, RepoFs, Repo, rel, t))
            \o AsCollected(5, RuleErrs(5, RepoFs, Repo, rel, t))

\* The calls of the run on one file.
AllCallsOn(abs) ==
    << << "read_text", relpath(abs, Repo) >> >>
        \o [k \in 1..RuleCount |-> << RuleNames[k], relpath(abs, Repo) >>]

MarkdownFilesUnder(root) == iter_markdown_files(RepoFs, realpath(RepoFs, pathjoin(Repo, root)))

ValidRoot(root) == RootErrs(RepoFs, Repo, root) = << >>

RECURSIVE ErrsOfFiles(_, _)
ErrsOfFiles(files, i) ==
    IF i > Len(files) THEN << >> ELSE AllRulesOn(files[i]) \o ErrsOfFiles(files, i + 1)

RECURSIVE CallsOfFiles(_, _)
CallsOfFiles(files, i) ==
    IF i > Len(files) THEN << >> ELSE AllCallsOn(files[i]) \o CallsOfFiles(files, i + 1)

\* What a run that lints every file of every valid root with every rule
\* collects, and the calls it makes.
RECURSIVE ErrsOfRoots(_, _)
ErrsOfRoots(roots, i) ==
    IF i > Len(roots) THEN << >>
    ELSE (IF ValidRoot(roots[i]) THEN ErrsOfFiles(MarkdownFilesUnder(roots[i]), 1)
          ELSE RootErrs(RepoFs, Repo, roots[i]))
             \o ErrsOfRoots(roots, i + 1)

RECURSIVE CallsOfRoots(_, _)
CallsOfRoots(roots, i) ==
    IF i > Len(roots) THEN << >>
    ELSE << << "root", roots[i] >> >>
             \o (IF ValidRoot(roots[i]) THEN CallsOfFiles(MarkdownFilesUnder(roots[i]), 1) ELSE << >>)
             \o CallsOfRoots(roots, i + 1)

\* C17: a run that returns has run the five rules, in their order, on every
\* Markdown file under every valid root, whatever the rules returned, and
\* its Findings are theirs in that order; a root that is unsafe, outside the
\* repository or missing gives its one Finding and the run goes on.
C17_NoShortCircuit ==
    Exited =>
        /\ out = ErrsOfRoots(ArgPaths, 1)
        /\ calls = << << "lint_paths" >> >> \o CallsOfRoots(ArgPaths, 1) \o << << "return" >> >>
        /\ \A q \in 1..Len(ArgPaths) : ~ValidRoot(ArgPaths[q]) => Len(RootErrs(RepoFs, Repo, ArgPaths[q])) = 1

\* A run over a rejected root and two valid ones, in which rules of one
\* file returned Findings and later rules of that file returned more.
C17_Witness ==
    /\ Exited
    /\ text = << OutLink, EpicsDir, ResearchDir >>
    /\ Len(out) > 4
    /\ AsCollected(1, RuleErrs(1, RepoFs, Repo, EpicsDir \o << SLASH, "a.md" >>, EpicDoc)) # << >>
    /\ AsCollected(5, RuleErrs(5, RepoFs, Repo, EpicsDir \o << SLASH, "a.md" >>, EpicDoc)) # << >>

FindingLines(lines) == SelectSeq(lines, LAMBDA l : l[1] = "-")

\* C18: with no Findings main returns 0; with Findings only, it prints every
\* Finding as "- {path}: {message}" and returns a status other than 0; a
\* fatal error (a file that is not UTF-8) ends the run with one diagnostic,
\* with a status that is neither 0 nor the status of the Findings, and with
\* no Finding printed.
C18_ExitContract ==
    /\ Exited =>
          /\ out = << >> => path.status = 0
          /\ out # << >> =>
                /\ path.status # 0
                /\ FindingLines(prev) = [q \in 1..Len(out) |-> << "-", out[q].path, out[q].message >>]
    /\ Raised =>
          /\ Len(prev) = 1
          /\ FindingLines(prev) = << >>
          /\ path.status # 0
          /\ path.status # FindingsStatus

\* The contract without the demand that the two statuses differ.
C18_ExitContractSameStatus ==
    /\ Exited =>
          /\ out = << >> => path.status = 0
          /\ out # << >> =>
                /\ path.status # 0
                /\ FindingLines(prev) = [q \in 1..Len(out) |-> << "-", out[q].path, out[q].message >>]
    /\ Raised =>
          /\ Len(prev) = 1
          /\ FindingLines(prev) = << >>
          /\ path.status # 0

\* Findings were collected for an earlier file when read_text raised.
C18_RaisedAfterFindings == Raised /\ text = << EpicsDir, BinDir >> /\ out # << >>

\* ---------------------------------------------------------------- review.json (C19)

\* A value read by json.load: its Python type and its content.  The content
\* of a string is its text, of a list its items, of an object its members;
\* True and False carry 1 and 0, the integers they are in Python.
JNull == [kind |-> "null", v |-> 0]
JInt(i) == [kind |-> "int", v |-> i]
JBool(b) == [kind |-> "bool", v |-> IF b THEN 1 ELSE 0]
JFloat(i) == [kind |-> "float", v |-> i]
JStr(s) == [kind |-> "str", v |-> s]
JList(items) == [kind |-> "list", v |-> items]
JDict(members) == [kind |-> "dict", v |-> members]

\* isinstance(x, int): bool is a subclass of int.
IsInt(x) == x.kind \in {"int", "bool"}
IsStr(x) == x.kind = "str"
IsList(x) == x.kind = "list"
IsDict(x) == x.kind = "dict"

\* d.get(k)
Get(d, k) == IF k \in DOMAIN d.v THEN d.v[k] ELSE JNull

\* x == "word" for a value x of any type
IsWord(x, w) == IsStr(x) /\ x.v = << w >>

STATUS_ALLOWED == {"Approved", "Approved with nits", "Blocked", "Question"}
PRIORITY_ALLOWED == {"P0", "P1", "P2", "P3"}

is_repo_relative_path(p) ==
    /\ p # << >>
    /\ p[1] # SLASH
    /\ p \notin { << DOT >>, << DOT, DOT >> }
    /\ ~Contains(NonEmptyParts(p), << DOT, DOT >>)

MaxTitle == 120

\* The message for the condition, if it holds.
ErrIf(cond, msg) == IF cond THEN << msg >> ELSE << >>

\* The checks on one line_range object (lines 147-175).
LineRangeErrs(idx, line_range) ==
    LET required == {"start", "end"}
        keys == DOMAIN line_range.v
        start == Get(line_range, "start")
        end == Get(line_range, "end")
    IN  ErrIf(required \ keys # {}, << "findings", idx, "line_range missing keys", required \ keys >>)
        \o ErrIf(keys \ required # {}, << "findings", idx, "line_range unexpected keys", keys \ required >>)
        \o ErrIf(~IsInt(start) \/ start.v < 1, << "findings", idx, "line_range.start must be int >= 1" >>)
        \o ErrIf(~IsInt(end) \/ end.v < 1, << "findings", idx, "line_range.end must be int >= 1" >>)
        \o ErrIf(IsInt(start) /\ IsInt(end) /\ end.v < start.v,
                 << "findings", idx, "line_range.end must be >= start" >>)

\* The checks on one code_location object (lines 122-175).
CodeLocationErrs(idx, code_location) ==
    LET required == {"repo_relative_path", "line_range"}
        keys == DOMAIN code_location.v
        repo_relative_path == Get(code_location, "repo_relative_path")
        line_range == Get(code_location, "line_range")
    IN  ErrIf(required \ keys # {}, << "findings", idx, "code_location missing keys", required \ keys >>)
        \o ErrIf(keys \ required # {}, << "findings", idx, "code_location unexpected keys", keys \ required >>)
        \o ErrIf(~IsStr(repo_relative_path) \/ ~is_repo_relative_path(repo_relative_path.v),
                 << "findings", idx, "repo_relative_path must be repo-relative" >>)
        \o (IF ~IsDict(line_range)
            THEN << << "findings", idx, "line_range must be an object" >> >>
            ELSE LineRangeErrs(idx, line_range))

\* sorted(required_finding_keys)
FindingKeys == << "body", "code_location", "priority", "title" >>

\* One pass of "for idx, item in enumerate(findings)" (lines 90-175).
FindingErrs(idx, item) ==
    IF ~IsDict(item) THEN << << "findings", idx, "is not an object" >> >>
    ELSE
        LET keys == DOMAIN item.v
            required == { FindingKeys[q] : q \in 1..Len(FindingKeys) }
            absent == SelectSeq(FindingKeys, LAMBDA k : k \notin keys)
            title == Get(item, "title")
            body == Get(item, "body")
            priority == Get(item, "priority")
            code_location == Get(item, "code_location")
        IN  [q \in 1..Len(absent) |-> << "findings", idx, "missing key", absent[q] >>]
            \o ErrIf(keys \ required # {}, << "findings", idx, "unexpected keys", keys \ required >>)
            \o (IF ~IsStr(title) \/ title.v = << >>
                THEN << << "findings", idx, "title must be a non-empty string" >> >>
                ELSE ErrIf(Len(title.v) > MaxTitle, << "findings", idx, "title must be <= 120 chars" >>))
            \o ErrIf(~IsStr(body) \/ body.v = << >>, << "findings", idx, "body must be a non-empty string" >>)
            \o ErrIf(~IsStr(priority) \/ ~(\E w \in PRIORITY_ALLOWED : priority.v = << w >>),
                     << "findings", idx, "priority must be one of", PRIORITY_ALLOWED >>)
            \o (IF ~IsDict(code_location)
                THEN << << "findings", idx, "code_location must be an object" >> >>
                ELSE CodeLocationErrs(idx, code_location))

\* The loop over the findings from item q on; enumerate counts from 0.
RECURSIVE FindingsLoop(_, _)
FindingsLoop(findings, q) ==
    IF q > Len(findings) THEN << >>
    ELSE FindingErrs(q - 1, findings[q]) \o FindingsLoop(findings, q + 1)

\* [f for f in findings if isinstance(f, dict) and f.get("priority") in ("P0", "P1")]
blockingP0Only(findings) ==
    SelectSeq(findings, LAMBDA f : IsDict(f) /\ IsWord(Get(f, "priority"), "P0"))

blocking(findings) ==
    SelectSeq(findings, LAMBDA f :
        IsDict(f) /\ (IsWord(Get(f, "priority"), "P0") \/ IsWord(Get(f, "priority"), "P1")))

\* The cross-field constraints (lines 177-206) on the lists the function
\* holds at that point.
CrossFieldErrs(status, findings, questions) ==
    (IF IsWord(status, "Approved")
     THEN ErrIf(Len(findings) # 0, << "Approved must have findings=[]" >>)
          \o ErrIf(Len(questions) # 0, << "Approved must have questions=[]" >>)
     ELSE << >>)
    \o (IF IsWord(status, "Approved with nits")
        THEN ErrIf(blocking(findings) # << >>, << "Approved with nits must not include P0/P1 findings" >>)
             \o ErrIf(Len(questions) # 0, << "Approved with nits must have questions=[]" >>)
        ELSE << >>)
    \o (IF IsWord(status, "Blocked")
        THEN ErrIf(blocking(findings) = << >>, << "Blocked must include at least one P0/P1 finding" >>)
        ELSE << >>)
    \o (IF IsWord(status, "Question")
        THEN ErrIf(Len(questions) = 0, << "Question must include at least one question" >>)
        ELSE << >>)

ReviewKeys ==
    {"schema_version", "scope_id", "status", "findings", "questions", "overall_explanation"}

SchemaVersion == 3

\* "status not in STATUS_ALLOWED" hashes the status: a list or an object
\* raises TypeError, once no required key is missing.
RaisesTypeError(obj) ==
    /\ ReviewKeys \subseteq DOMAIN obj.v
    /\ Get(obj, "status").kind \in {"list", "dict"}

\* validate_review, for an object whose status can be hashed;
\* expected_scope_id is a string or JNull (None).
validate_review(obj, expected_scope_id) ==
    LET keys == DOMAIN obj.v
        schema_version == Get(obj, "schema_version")
        scope_id == Get(obj, "scope_id")
        status == Get(obj, "status")
        findings_in == Get(obj, "findings")
        questions_in == Get(obj, "questions")
        overall_explanation == Get(obj, "overall_explanation")
        questions_ok ==
            /\ IsList(questions_in)
            /\ \A q \in 1..Len(questions_in.v) : IsStr(questions_in.v[q])
        findings == IF IsList(findings_in) THEN findings_in.v ELSE << >>
        questions == IF questions_ok THEN questions_in.v ELSE << >>
    IN  IF ReviewKeys \ keys # {} THEN << << "missing keys", ReviewKeys \ keys >> >>
        ELSE
            ErrIf(keys \ ReviewKeys # {}, << "unexpected keys", keys \ ReviewKeys >>)
            \o ErrIf(~(schema_version.kind \in {"int", "bool", "float"} /\ schema_version.v = SchemaVersion),
                     << "schema_version must be 3" >>)
            \o (IF ~IsStr(scope_id) \/ scope_id.v = << >>
                THEN << << "scope_id must be a non-empty string" >> >>
                ELSE ErrIf(IsStr(expected_scope_id) /\ scope_id.v # expected_scope_id.v,
                           << "scope_id mismatch", expected_scope_id.v, scope_id.v >>))
            \o ErrIf(~(\E w \in STATUS_ALLOWED : IsWord(status, w)), << "status must be one of", STATUS_ALLOWED >>)
            \o ErrIf(~IsList(findings_in), << "findings must be an array" >>)
            \o ErrIf(~questions_ok, << "questions must be an array of strings" >>)
            \o ErrIf(~IsStr(overall_explanation) \/ overall_explanation.v = << >>,
                     << "overall_explanation must be a non-empty string" >>)
            \o FindingsLoop(findings, 1)
            \o CrossFieldErrs(status, findings, questions)

\* The review objects of the runs: findings are appended one at a time, the
\* other members are chosen at the call.
LineRange(start, end) == JDict([start |-> start, end |-> end])

CodeLocation(p, line_range) ==
    JDict([repo_relative_path |-> JStr(p), line_range |-> line_range])

Finding(title, priority, code_location) ==
    JDict([title |-> JStr(title), body |-> JStr(<< "b" >>),
           priority |-> priority, code_location |-> code_location])

SrcFile == << "s", "r", "c", SLASH, "a" >>

\* The inputs are listed as sequences: values of different Python types are
\* never compared with each other.
LineRanges ==
    << LineRange(JInt(1), JInt(1)),
      LineRange(JInt(2), JInt(1)),
      LineRange(JInt(0), JInt(1)),
      LineRange(JBool(TRUE), JBool(TRUE)),
      LineRange(JFloat(1), JInt(2)),
      JDict([start |-> JInt(1)]),
      JNull >>

LongTitle == [q \in 1..(MaxTitle + 1) |-> "t"]

Priorities == << "P0", "P1", "P2", "P9" >>

ReviewFindings ==
    [q \in 1..Len(Priorities) |->
        Finding(<< "t" >>, JStr(<< Priorities[q] >>), CodeLocation(SrcFile, LineRange(JInt(1), JInt(2))))]
    \o [q \in 1..Len(LineRanges) |->
        Finding(<< "t" >>, JStr(<< "P3" >>), CodeLocation(SrcFile, LineRanges[q]))]
    \o << JNull,
           Finding(LongTitle, JStr(<< "P2" >>), CodeLocation(SrcFile, LineRange(JInt(1), JInt(2)))),
           Finding(<< "t" >>, JInt(0), CodeLocation(SrcFile, LineRange(JInt(1), JInt(2)))),
           Finding(<< "t" >>, JStr(<< "P2" >>), CodeLocation(<< DOT, DOT, SLASH, "a" >>, LineRange(JInt(1), JInt(2)))),
           Finding(<< "t" >>, JStr(<< "P2" >>), JNull),
           JDict([title |-> JStr(<< "t" >>), priority |-> JStr(<< "P0" >>),
                  code_location |-> CodeLocation(SrcFile, LineRange(JInt(1), JInt(2)))]) >>

Statuses ==
    << JStr(<< "Approved" >>), JStr(<< "Approved with nits" >>), JStr(<< "Blocked" >>),
       JStr(<< "Question" >>), JStr(<< "Rejected" >>), JList(<< >>) >>

QuestionLists ==
    << JList(<< >>), JList(<< JStr(<< "q" >>) >>), JList(<< JInt(1) >>), JNull >>

ScopeId == << "issue-1" >>

Envelope(schema_version, drop, extra, expected) ==
    [schema_version |-> schema_version, drop |-> drop, extra |-> extra, expected |-> expected]

Envelopes ==
    << Envelope(JInt(SchemaVersion), {}, FALSE, JNull),
      Envelope(JInt(SchemaVersion), {}, FALSE, JStr(<< "issue-2" >>)),
      Envelope(JInt(2), {}, FALSE, JNull),
      Envelope(JInt(SchemaVersion), {"questions"}, FALSE, JNull),
      Envelope(JInt(SchemaVersion), {}, TRUE, JNull) >>

ReviewObject(env, status, findings, questions) ==
    LET full == [schema_version |-> env.schema_version,
                 scope_id |-> JStr(ScopeId),
                 status |-> status,
                 findings |-> findings,
                 questions |-> questions,
                 overall_explanation |-> JStr(<< "ok" >>),
                 note |-> JNull]
        keys == (ReviewKeys \cup (IF env.extra THEN {"note"} ELSE {})) \ env.drop
    IN  JDict([k \in keys |-> full[k]])

MaxFindings == 2

TypeFinding ==
    \E f \in 1..Len(ReviewFindings) : Len(text) < MaxFindings /\ Type(<< ReviewFindings[f] >>)

\* errors = validate_review(data, expected_scope_id) in main (line 236);
\* prev is the object, out the errors, path how the call ended.
CallValidateReview ==
    \E e \in 1..Len(Envelopes), s \in 1..Len(Statuses), q \in 1..Len(QuestionLists),
       findings_given \in BOOLEAN :
        LET env == Envelopes[e]
            findings == IF findings_given THEN JList(text) ELSE JNull
            obj == ReviewObject(env, Statuses[s], findings, QuestionLists[q])
        IN  /\ calls = << >>
            /\ calls' = << "validate_review" >>
            /\ prev' = obj
            /\ IF RaisesTypeError(obj)
               THEN path' = "TypeError" /\ out' = << >>
               ELSE path' = "returned" /\ out' = validate_review(obj, env.expected)
            /\ UNCHANGED <<text, n>>

NextReview == TypeFinding \/ CallValidateReview

SpecReview == Init /\ [][NextReview]_vars

ReviewReturned == calls = << "validate_review" >> /\ path = "returned"

\* The cross-field rules and the line ranges, read on the object itself.
IsEmptyList(x) == IsList(x) /\ x.v = << >>

IsBlockingFinding(f) ==
    IsDict(f) /\ (IsWord(Get(f, "priority"), "P0") \/ IsWord(Get(f, "priority"), "P1"))

HasBlockingFinding(obj) ==
    /\ IsList(Get(obj, "findings"))
    /\ \E q \in 1..Len(Get(obj, "findings").v) : IsBlockingFinding(Get(obj, "findings").v[q])

LineRangeHolds(f) ==
    /\ IsDict(f)
    /\ IsDict(Get(f, "code_location"))
    /\ IsDict(Get(Get(f, "code_location"), "line_range"))
    /\ LET line_range == Get(Get(f, "code_location"), "line_range")
           start == Get(line_range, "start")
           end == Get(line_range, "end")
       IN  /\ IsInt(start) /\ IsInt(end)
           /\ start.v >= 1
           /\ end.v >= start.v

CrossFieldRulesHold(obj) ==
    LET status == Get(obj, "status")
        findings == Get(obj, "findings")
        questions == Get(obj, "questions")
    IN  /\ IsWord(status, "Approved") => IsEmptyList(findings) /\ IsEmptyList(questions)
        /\ IsWord(status, "Approved with nits") => ~HasBlockingFinding(obj) /\ IsEmptyList(questions)
        /\ IsWord(status, "Blocked") => HasBlockingFinding(obj)
        /\ IsWord(status, "Question") => IsList(questions) /\ Len(questions.v) >= 1
        /\ IsList(findings) /\ \A q \in 1..Len(findings.v) : LineRangeHolds(findings.v[q])

\* C19: validate_review returns an empty error list only if the cross-field
\* rules hold: "Approved" has empty findings and empty questions, "Approved
\* with nits" has no P0/P1 finding and empty questions, "Blocked" has at
\* least one P0/P1 finding, "Question" has at least one question, and the
\* line range of every finding has start >= 1 and end >= start (as Python
\* compares them: True counts as 1).
C19_CrossFieldRules ==
    (ReviewReturned /\ out = << >>) => CrossFieldRulesHold(prev)

C19_Witness ==
    /\ ReviewReturned
    /\ out = << >>
    /\ IsWord(Get(prev, "status"), "Blocked")
    /\ Len(Get(prev, "findings").v) = 2
    /\ HasBlockingFinding(prev)

\* An accepted "Approved with nits" review with a finding.
C19_NitsWitness ==
    /\ ReviewReturned
    /\ out = << >>
    /\ IsWord(Get(prev, "status"), "Approved with nits")
    /\ Len(Get(prev, "findings").v) = 1

\* ---------------------------------------------------------------- the line iterator (C20)

\* A line of splitlines(keepends=True) without its terminator: the lines of
\* text.splitlines().
LineBody(line) ==
    IF Len(line) >= 2 /\ line[Len(line) - 1] = CR /\ line[Len(line)] = NL
    THEN SubSeq(line, 1, Len(line) - 2)
    ELSE IF Len(line) >= 1 /\ line[Len(line)] \in {NL, CR}
    THEN SubSeq(line, 1, Len(line) - 1)
    ELSE line

splitlines_bare(t) == [q \in 1..Len(splitlines(t)) |-> LineBody(splitlines(t)[q])]

\* Number of leading characters of \s of t from position i.
RECURSIVE SpaceRun(_, _)
SpaceRun(t, i) ==
    IF i > Len(t) \/ ~IsSpace(t[i]) THEN 0 ELSE 1 + SpaceRun(t, i + 1)

\* Length of the run of [`~] (either character) that starts at position i.
RECURSIVE MarkerRun(_, _)
MarkerRun(t, i) ==
    IF i > Len(t) \/ t[i] \notin {BT, TL} THEN 0 ELSE 1 + MarkerRun(t, i + 1)

\* re.match(r"^\s*([`~]{3,})", line): [char, len] of marker[0] and
\* len(marker), or NoFence.
MarkerMatch(line) ==
    LET k == SpaceRun(line, 1)
        r == MarkerRun(line, k + 1)
    IN  IF r >= FenceMinRun THEN [char |-> line[k + 1], len |-> r] ELSE NoFence

\* The loop of iter_non_fenced_lines over the lines from position i, with
\* (in_fence, fence_char, fence_len) in f.
RECURSIVE IterLoop(_, _, _)
IterLoop(ls, i, f) ==
    IF i > Len(ls) THEN << >>
    ELSE LET m == MarkerMatch(ls[i])
         IN  IF m.len > 0 /\ f.len = 0 THEN IterLoop(ls, i + 1, m)
             ELSE IF m.len > 0 /\ m.char = f.char /\ m.len >= f.len
             THEN IterLoop(ls, i + 1, NoFence)
             ELSE IF f.len > 0 THEN IterLoop(ls, i + 1, f)
             ELSE << ls[i] >> \o IterLoop(ls, i + 1, f)

iter_non_fenced_lines(t) == IterLoop(splitlines_bare(t), 1, NoFence)

IterFrags ==
    { << BT, BT, BT, NL >>,
      << BT, BT, BT, BT, NL >>,
      << TL, TL, TL, NL >>,
      << BT, BT, BT >>,
      << BT, TL >>,
      << SP, "a", NL >>,
      << CR, NL >>,
      << "a", NL >>,
      << SP >>,
      << SP, SP, SP, SP >> }

TypeIter == \E f \in IterFrags : Type(f)

\* out becomes the list of lines the iterator returns.
CallIter ==
    /\ calls = << >>
    /\ Apply("iter_non_fenced_lines", iter_non_fenced_lines(out))

NextIter == TypeIter \/ CallIter

SpecIter == Init /\ [][NextIter]_vars

IterRan == calls = << "iter_non_fenced_lines" >>

\* The lines strip_fenced_code_blocks keeps.
StripFencedLines(t) == splitlines_bare(strip_fenced_code_blocks(t))

\* C20: the fence-skipping line iterator uses the fence-matching rule of
\* strip_fenced_code_blocks: for every text, iter_non_fenced_lines keeps
\* exactly the lines that strip_fenced_code_blocks keeps.
C20_SameLinesAsStripFenced ==
    IterRan => out = StripFencedLines(prev)

\* Every line that the iterator's pattern matches is a bare fence line of
\* strip_fenced_code_blocks: at most three blanks, a run of one character,
\* blanks only after it, terminated by LF or not at all.
OnlyBareFences(t) ==
    \A q \in 1..Len(splitlines(t)) :
        LET line == splitlines(t)[q]
        IN  /\ MarkerMatch(LineBody(line)) = FenceOpenMatch(line)
            /\ MarkerMatch(LineBody(line)) = FenceCloseMatch(line)

\* On texts whose fence lines are all bare, the two keep the same lines.
C20_SameLinesOnBareFences ==
    (IterRan /\ OnlyBareFences(prev)) => out = StripFencedLines(prev)

\* A block between bare fences and a line after it: both keep that line only.
C20_BareFencesWitness ==
    /\ IterRan
    /\ prev = << BT, BT, BT, NL, "a", NL, BT, BT, BT, NL, "a", NL >>
    /\ out = << << "a" >> >>

\* A fence line indented by four spaces: the iterator drops what the
\* sanitizer keeps.
C20_IndentedFenceDiffers ==
    /\ IterRan
    /\ prev = << SP, SP, SP, SP, BT, BT, BT, NL, "a", NL >>
    /\ out = << >>
    /\ StripFencedLines(prev) = << << SP, SP, SP, SP, BT, BT, BT >>, << "a" >> >>

\* A closing run followed by text: the iterator leaves the fence, the
\* sanitizer stays in it.
C20_CloserWithTextDiffers ==
    /\ IterRan
    /\ prev = << BT, BT, BT, NL, BT, BT, BT, SP, "a", NL, "a", NL >>
    /\ out = << << "a" >> >>
    /\ StripFencedLines(prev) = << >>

\* ---------------------------------------------------------------- the worktree gate (C21)

IssueW == "issue"
USCORE == "_"
GitdirW == "gitdir:"
GitW == "git"
WorktreesW == "worktrees"

EXIT_GATE_BLOCKED == 2

\* \w on the symbols of a branch name.
IsWordChar(c) == IsDigit(c) \/ c \in { IssueW, USCORE, "f", "x" }

\* \b at the gap before position i of t.
WordBoundary(t, i) ==
    (i > 1 /\ i - 1 <= Len(t) /\ IsWordChar(t[i - 1])) # (i <= Len(t) /\ IsWordChar(t[i]))

\* r"\bissue-(\d+)\b" matches at position i: the position after the digits,
\* or 0.  \d+ is greedy and a boundary cannot lie between two digits.
IssueMatchEnd(t, i) ==
    LET e == SkipDigits(t, i + 2)
    IN  IF /\ HasAt(t, i, IssueW) /\ HasAt(t, i + 1, DASH)
           /\ WordBoundary(t, i)
           /\ e > i + 2
           /\ WordBoundary(t, e)
        THEN e ELSE 0

\* extract_issue_number_from_branch: << n >>, or << >> for None.
extract_issue_number_from_branch(branch) ==
    LET found == { i \in 1..Len(branch) : IssueMatchEnd(branch, i) # 0 }
        m == CHOOSE i \in found : \A j \in found : i <= j
    IN  IF found = {} THEN << >>
        ELSE << int(SubSeq(branch, m + 2, IssueMatchEnd(branch, m) - 1)) >>

\* Mutant of is_linked_worktree_gitfile: any gitfile naming a .git directory.
is_linked_worktree_gitfileAnyGit(content) ==
    HasSubstring(content, << DOT, GitW >>)

is_linked_worktree_gitfile(content) ==
    HasSubstring(content, << DOT, GitW, SLASH, WorktreesW, SLASH >>)

\* What the run finds at <repo>/.git and how reading it ends.
GitPath(kind, read, content) == [kind |-> kind, read |-> read, content |-> content]

\* main of validate-worktree: [ended, status].  in_repo is whether
\* git_repo_root succeeds.
ValidateWorktree(in_repo, branch, git_path) ==
    IF ~in_repo THEN [ended |-> "returned", status |-> 0]
    ELSE IF extract_issue_number_from_branch(branch) = << >>
    THEN [ended |-> "returned", status |-> 0]
    ELSE IF git_path.kind = "file"
    THEN IF git_path.read = "OSError"
         THEN [ended |-> "returned", status |-> EXIT_GATE_BLOCKED]
         ELSE IF git_path.read = "UnicodeDecodeError"
         THEN [ended |-> "raised", status |-> 1]
         ELSE IF is_linked_worktree_gitfile(git_path.content)
         THEN [ended |-> "returned", status |-> 0]
         ELSE [ended |-> "returned", status |-> EXIT_GATE_BLOCKED]
    ELSE [ended |-> "returned", status |-> EXIT_GATE_BLOCKED]

BranchFrags ==
    { << "f", SLASH >>,
      << IssueW, DASH >>,
      << "1" >>,
      << "2", "0" >>,
      << DASH, "x" >>,
      << USCORE >>,
      << "x" >> }

TypeBranch == \E f \in BranchFrags : Type(f)

LinkedGitfile ==
    << GitdirW, SP, SLASH, "r", SLASH, DOT, GitW, SLASH, WorktreesW, SLASH, "w", NL >>
PlainGitfile == << GitdirW, SP, SLASH, "r", SLASH, DOT, GitW, NL >>

GitPaths ==
    { GitPath("file", "ok", LinkedGitfile),
      GitPath("file", "ok", PlainGitfile),
      GitPath("file", "ok", << >>),
      GitPath("file", "OSError", LinkedGitfile),
      GitPath("file", "UnicodeDecodeError", LinkedGitfile),
      GitPath("dir", "ok", << >>),
      GitPath("missing", "ok", << >>) }

\* One run of the script on the current branch: prev is what it finds, out
\* its exit status, path how it ended.
CallValidateWorktree ==
    \E in_repo \in BOOLEAN, git_path \in GitPaths :
        LET r == ValidateWorktree(in_repo, text, git_path)
        IN  /\ calls = << >>
            /\ calls' = << "validate-worktree" >>
            /\ prev' = [in_repo |-> in_repo, git |-> git_path]
            /\ path' = r.ended
            /\ out' = << r.status >>
            /\ UNCHANGED <<text, n>>

NextWorktree == TypeBranch \/ CallValidateWorktree

SpecWorktree == Init /\ [][NextWorktree]_vars

WorktreeRan == calls = << "validate-worktree" >>

Returned(status) == path = "returned" /\ out = << status >>

\* The branch name contains "issue-" followed by a digit.
ContainsIssueDigits(branch) ==
    \E i \in 1..Len(branch) :
        HasAt(branch, i, IssueW) /\ HasAt(branch, i + 1, DASH)
            /\ i + 2 <= Len(branch) /\ IsDigit(branch[i + 2])

\* .git is a regular file that reads as text containing ".git/worktrees/".
IsLinkedWorktree(git_path) ==
    /\ git_path.kind = "file"
    /\ git_path.read = "ok"
    /\ HasSubstring(git_path.content, << DOT, GitW, SLASH, WorktreesW, SLASH >>)

\* C21: in a repository, when the branch name contains 'issue-<digits>' the
\* run returns 0 only if .git is a regular file whose content contains
\* '.git/worktrees/', and returns 2 when .git is a directory, a gitfile
\* that does not point into .git/worktrees/, unreadable, or missing; on a
\* branch without an issue number it returns 0.
C21_WorktreeGate ==
    (WorktreeRan /\ prev.in_repo) =>
        IF ContainsIssueDigits(text)
        THEN /\ Returned(0) => IsLinkedWorktree(prev.git)
             /\ ~IsLinkedWorktree(prev.git) => Returned(EXIT_GATE_BLOCKED)
        ELSE Returned(0)

\* The gate as the code has it: the issue number is the first 'issue-<digits>'
\* standing as a whole word, and a gitfile that is not UTF-8 ends the run by
\* an exception.
C21_GateOnWholeWordIssue ==
    (WorktreeRan /\ prev.in_repo) =>
        IF extract_issue_number_from_branch(text) # << >>
        THEN /\ Returned(0) <=> IsLinkedWorktree(prev.git)
             /\ (~IsLinkedWorktree(prev.git) /\ prev.git.read # "UnicodeDecodeError")
                    => Returned(EXIT_GATE_BLOCKED)
             /\ prev.git.read = "UnicodeDecodeError" /\ prev.git.kind = "file" => path = "raised"
        ELSE Returned(0)

\* issue-120-x with a gitfile that is not UTF-8.
C21_UndecodableGitfile ==
    /\ WorktreeRan /\ prev.in_repo
    /\ text = << IssueW, DASH, "1", "2", "0", DASH, "x" >>
    /\ prev.git.read = "UnicodeDecodeError"
    /\ path = "raised"

\* feature/issue-120_ with .git a directory: no issue number is found.
C21_UnderscoreAfterNumber ==
    /\ WorktreeRan /\ prev.in_repo
    /\ text = << "f", SLASH, IssueW, DASH, "2", "0", USCORE >>
    /\ prev.git.kind = "dir"
    /\ Returned(0)

\* ---------------------------------------------------------------- the approval gate (C22)

MODE_ALLOWED == { "impl", "tdd", "custom" }

Sha256W == "sha256:"

\* text.replace("\r\n", "\n").replace("\r", "\n")
RECURSIVE NormalizeNewlines(_, _)
NormalizeNewlines(t, i) ==
    IF i > Len(t) THEN << >>
    ELSE IF t[i] = CR /\ HasAt(t, i + 1, NL) THEN << NL >> \o NormalizeNewlines(t, i + 2)
    ELSE IF t[i] = CR THEN << NL >> \o NormalizeNewlines(t, i + 1)
    ELSE << t[i] >> \o NormalizeNewlines(t, i + 1)

EndWithNewline(t) ==
    IF Len(t) > 0 /\ t[Len(t)] = NL THEN t ELSE t \o << NL >>

normalize_text_for_hash(t) == EndWithNewline(NormalizeNewlines(t, 1))

\* The digest stands for the bytes it was computed from: two byte strings
\* have the same digest exactly when they are equal.
sha256_prefixed(data) == << Sha256W >> \o data

\* re.match(r"^sha256:[0-9a-f]{64}$", recorded_hash)
IsSha256(h) == Len(h) >= 1 /\ h[1] = Sha256W

\* re.match(r"^\d{4}-\d{2}-\d{2}T\d{2}:\d{2}:\d{2}Z$", approved_at)
IsUtcTimestamp(s) ==
    /\ Len(s) = 20
    /\ \A i \in { 1, 2, 3, 4, 6, 7, 9, 10, 12, 13, 15, 16, 18, 19 } : IsDigit(s[i])
    /\ s[5] = DASH /\ s[8] = DASH /\ s[11] = "T"
    /\ s[14] = COLON /\ s[17] = COLON /\ s[20] = "Z"

\* What now_utc_z returns on the day of the run.
NowUtcZ ==
    << "2", "0", "2", "6", DASH, "0", "1", DASH, "0", "2", "T",
       "0", "3", COLON, "0", "4", COLON, "0", "5", "Z" >>

GivenUtcZ ==
    << "2", "0", "2", "5", DASH, "1", "2", DASH, "3", "1", "T",
       "2", "3", COLON, "5", "9", COLON, "5", "9", "Z" >>

DateOnly == << "2", "0", "2", "6", DASH, "0", "1", DASH, "0", "2" >>

\* A file of the approvals directory: absent, text, or bytes that are not UTF-8.
NoFile == [kind |-> "absent", content |-> << >>]
TextFile(t) == [kind |-> "text", content |-> t]
BinaryFile == [kind |-> "binary", content |-> << >>]

\* approval.json as create-approval writes it.
Record(issue, mode, approved_at, estimate_hash, approver) ==
    [schema_version |-> 1, issue_number |-> issue, mode |-> mode,
     approved_at |-> approved_at, estimate_hash |-> estimate_hash,
     approver |-> approver]

NoRecord == Record(0, "", << >>, << >>, "")

NoApproval == [kind |-> "absent", obj |-> NoRecord]
ApprovalFile(obj) == [kind |-> "json", obj |-> obj]

\* validate_approval and the hash check of main on a record: the exception
\* raised, or "none".
validate_approval(obj, expected_issue_number) ==
    IF obj.estimate_hash = << >> THEN "ValueError"
    ELSE IF obj.schema_version # 1 THEN "ValueError"
    ELSE IF obj.issue_number # expected_issue_number THEN "ValueError"
    ELSE IF obj.mode \notin MODE_ALLOWED THEN "ValueError"
    ELSE IF obj.approved_at = << >> \/ ~IsUtcTimestamp(obj.approved_at) THEN "ValueError"
    ELSE IF obj.approver = "" THEN "ValueError"
    ELSE "none"

\* main of validate-approval: the status returned.
ValidateApproval(in_repo, issue_number, estimate_md, approval_json) ==
    IF ~in_repo THEN 1
    ELSE IF issue_number = << >> THEN 0
    ELSE IF estimate_md.kind = "absent" THEN EXIT_GATE_BLOCKED
    ELSE IF approval_json.kind = "absent" THEN EXIT_GATE_BLOCKED
    ELSE IF estimate_md.kind = "binary" THEN EXIT_GATE_BLOCKED
    ELSE IF validate_approval(approval_json.obj, issue_number[1]) # "none"
    THEN EXIT_GATE_BLOCKED
    ELSE IF ~IsSha256(approval_json.obj.estimate_hash) THEN EXIT_GATE_BLOCKED
    ELSE IF approval_json.obj.estimate_hash
                # sha256_prefixed(normalize_text_for_hash(estimate_md.content))
    THEN EXIT_GATE_BLOCKED
    ELSE 0

\* Mutant of write_json: an existing file is overwritten without --force.
write_jsonOverwrite(old, obj, force, disk_ok) ==
    IF ~disk_ok THEN [raised |-> "OSError", file |-> old]
    ELSE [raised |-> "none", file |-> ApprovalFile(obj)]

\* write_json: the exception raised and the file afterwards.  The record is
\* written beside the file and moved over it, so a failed write changes nothing.
write_json(old, obj, force, disk_ok) ==
    IF old.kind # "absent" /\ ~force THEN [raised |-> "FileExistsError", file |-> old]
    ELSE IF ~disk_ok THEN [raised |-> "OSError", file |-> old]
    ELSE [raised |-> "none", file |-> ApprovalFile(obj)]

CreateResult(status, file) == [status |-> status, file |-> file]

\* The end of main after write_json.
CreateWrite(w) ==
    CASE w.raised = "FileExistsError" -> CreateResult(2, w.file)
      [] w.raised = "none" -> CreateResult(0, w.file)
      [] OTHER -> CreateResult(1, w.file)

\* main of create-approval: the status returned and approval.json afterwards.
\* approved_at = args.approved_at.strip() or now_utc_z()
ApprovedAt(args) ==
    IF strip(args.approved_at) = << >> THEN NowUtcZ ELSE strip(args.approved_at)

CreateApproval(args, estimate_md, approval_json) ==
    IF args.issue < 0 THEN CreateResult(2, approval_json)
    ELSE IF args.mode \notin MODE_ALLOWED THEN CreateResult(2, approval_json)
    ELSE IF ~IsUtcTimestamp(ApprovedAt(args)) THEN CreateResult(2, approval_json)
    ELSE IF ~args.in_repo THEN CreateResult(1, approval_json)
    ELSE IF estimate_md.kind # "text" THEN CreateResult(2, approval_json)
    ELSE CreateWrite(write_json(approval_json,
                                Record(args.issue, args.mode, ApprovedAt(args),
                                       sha256_prefixed(normalize_text_for_hash(estimate_md.content)),
                                       args.approver),
                                args.force, args.disk_ok))

BranchIssue == 120
OtherIssue == 1
Issues == { OtherIssue, BranchIssue }

IssueBranch == << IssueW, DASH, "1", "2", "0", DASH, "x" >>
PlainBranch == << "f", SLASH, "x" >>

EstimateTexts ==
    { << >>,
      << "a" >>,
      << "a", NL >>,
      << "a", CR, NL >>,
      << "a", CR >>,
      << "b", NL >>,
      << "a", NL, "b" >> }

EstimateFiles == { TextFile(t) : t \in EstimateTexts } \cup { BinaryFile }

\* Before anything is saved under .agentic-sdd/approvals for the branch's
\* issue; the other issue has its estimate snapshot.
InitApproval ==
    /\ text = IssueBranch
    /\ n = 0
    /\ calls = << "none", FALSE, << >> >>
    /\ path = [estimate |-> [i \in Issues |->
                                IF i = OtherIssue THEN TextFile(<< "a", NL >>) ELSE NoFile],
               approval |-> [i \in Issues |-> NoApproval]]
    /\ prev = [approved |-> << >>, edited |-> FALSE]
    /\ out = << >>

\* The normalized text of an estimate file, or << >> when it has none.
NormalizedOf(file) ==
    IF file.kind = "text" THEN << normalize_text_for_hash(file.content) >> ELSE << >>

\* The estimate snapshot of the branch's issue is saved with another content.
\* prev.edited records an edit that changed the normalized text since the
\* last successful create-approval.
EditEstimate ==
    \E file \in EstimateFiles :
        /\ file # path.estimate[BranchIssue]
        /\ path' = [path EXCEPT !.estimate[BranchIssue] = file]
        /\ prev' = [prev EXCEPT !.edited =
                        prev.edited \/ (/\ prev.approved # << >>
                                        /\ NormalizedOf(file)
                                               # NormalizedOf(path.estimate[BranchIssue]))]
        /\ calls' = << "edit", FALSE, << >> >>
        /\ out' = << >>
        /\ UNCHANGED <<text, n>>

\* The command lines tried: the complete ones, and each way of failing
\* before the record is written.
CreateRun(in_repo, issue, mode, approver, approved_at, force, disk_ok) ==
    [in_repo |-> in_repo, issue |-> issue, mode |-> mode, approver |-> approver,
     approved_at |-> approved_at, force |-> force, disk_ok |-> disk_ok]

CreateRuns ==
    { CreateRun(TRUE, issue, "impl", approver, approved_at, force, TRUE) :
          issue \in Issues, approver \in { "user", "" },
          approved_at \in { << >>, << SP >> \o GivenUtcZ \o << SP >> },
          force \in BOOLEAN }
    \cup { CreateRun(TRUE, -1, "impl", "user", << >>, force, TRUE) : force \in BOOLEAN }
    \cup { CreateRun(TRUE, BranchIssue, "bogus", "user", << >>, force, TRUE) : force \in BOOLEAN }
    \cup { CreateRun(TRUE, BranchIssue, "tdd", "user", DateOnly, force, TRUE) : force \in BOOLEAN }
    \cup { CreateRun(FALSE, BranchIssue, "tdd", "user", << >>, force, TRUE) : force \in BOOLEAN }
    \cup { CreateRun(TRUE, BranchIssue, "custom", "user", << >>, force, FALSE) : force \in BOOLEAN }

\* One run of create-approval.
CallCreateApproval ==
    \E a \in CreateRuns :
        LET r == CreateApproval(a,
                                IF a.issue \in Issues THEN path.estimate[a.issue] ELSE NoFile,
                                IF a.issue \in Issues THEN path.approval[a.issue] ELSE NoApproval)
        IN  /\ path' = IF a.issue \in Issues
                       THEN [path EXCEPT !.approval[a.issue] = r.file]
                       ELSE path
            /\ prev' = IF r.status = 0 /\ a.issue = BranchIssue
                       THEN [approved |-> NormalizedOf(path.estimate[a.issue]),
                             edited |-> FALSE]
                       ELSE prev
            /\ calls' = << "create-approval", a.force, << a.issue >> >>
            /\ out' = << r.status >>
            /\ UNCHANGED <<text, n>>

\* One run of validate-approval.
CallValidateApproval ==
    \E in_repo \in BOOLEAN, branch \in { IssueBranch, PlainBranch } :
        LET issue_number == extract_issue_number_from_branch(branch)
        IN  /\ out' = << ValidateApproval(in_repo, issue_number,
                             IF issue_number = << >> THEN NoFile
                             ELSE path.estimate[issue_number[1]],
                             IF issue_number = << >> THEN NoApproval
                             ELSE path.approval[issue_number[1]]) >>
            /\ calls' = << "validate-approval", in_repo, issue_number >>
            /\ text' = branch
            /\ UNCHANGED <<n, path, prev>>

NextApproval == EditEstimate \/ CallCreateApproval \/ CallValidateApproval

SpecApproval == InitApproval /\ [][NextApproval]_vars

\* validate-approval has just run in the repository on the branch of the issue.
ValidatedOnIssueBranch ==
    calls = << "validate-approval", TRUE, << BranchIssue >> >>

SchemaValid(obj, issue) ==
    /\ obj.schema_version = 1
    /\ obj.issue_number = issue
    /\ obj.mode \in MODE_ALLOWED
    /\ IsUtcTimestamp(obj.approved_at)
    /\ obj.approver # ""
    /\ IsSha256(obj.estimate_hash)

\* Both files exist, the record is schema-valid for the issue, and its hash
\* is that of the current normalized estimate.
ApprovalCurrent ==
    /\ path.estimate[BranchIssue].kind = "text"
    /\ path.approval[BranchIssue].kind = "json"
    /\ SchemaValid(path.approval[BranchIssue].obj, BranchIssue)
    /\ path.approval[BranchIssue].obj.estimate_hash
           = sha256_prefixed(normalize_text_for_hash(path.estimate[BranchIssue].content))

\* The normalized estimate is not the one the last successful create-approval hashed.
Drift ==
    /\ prev.approved # << >>
    /\ NormalizedOf(path.estimate[BranchIssue]) # prev.approved

\* C22: after any sequence of estimate edits and create-approval runs, on a
\* branch for issue N validate-approval returns 0 only if estimate.md and
\* approval.json both exist, approval.json is schema-valid with issue_number
\* N and its hash is that of the current normalized estimate.md; and once an
\* edit has changed the normalized estimate text after the last successful
\* create-approval, it returns 2 until create-approval runs again with --force.
C22_ApprovalGate ==
    ValidatedOnIssueBranch =>
        /\ out = << 0 >> => ApprovalCurrent
        /\ prev.edited => out = << EXIT_GATE_BLOCKED >>

ForcedCreate == calls = << "create-approval", TRUE, << BranchIssue >> >> /\ out = << 0 >>

\* C22 as the code has it: validate-approval returns 0 only on a current
\* approval, returns 2 for as long as the normalized estimate differs from
\* the one last approved, and no step other than an edit of the estimate or
\* a successful create-approval --force ends that.
C22_ApprovalGateWhileDrift ==
    /\ [](ValidatedOnIssueBranch =>
            /\ out = << 0 >> => ApprovalCurrent
            /\ Drift => out = << EXIT_GATE_BLOCKED >>)
    /\ [][(Drift /\ ~Drift') => (calls'[1] = "edit" \/ ForcedCreate')]_vars

\* Blocked on drift: the record is valid and the estimate was edited since.
C22_Witness ==
    /\ ValidatedOnIssueBranch
    /\ Drift
    /\ path.estimate[BranchIssue].kind = "text"
    /\ SchemaValid(path.approval[BranchIssue].obj, BranchIssue)
    /\ out = << EXIT_GATE_BLOCKED >>

\* The estimate was edited and then edited back to the approved text.
C22_EditedBack ==
    /\ ValidatedOnIssueBranch
    /\ prev.edited
    /\ ~Drift
    /\ out = << 0 >>

\* Approved again with --force after an edit.
C22_ForcedAgain ==
    /\ ValidatedOnIssueBranch
    /\ out = << 0 >>
    /\ prev.approved = << << "b", NL >> >>
    /\ path.approval[BranchIssue].obj.approved_at = GivenUtcZ

\* ---------------------------------------------------------------- the epic's meta information (C23)

DraftW == "Draft"
ReviewW == "Review"

StatusWords == { DraftW, ReviewW, AW }

\* r"ステータス:\s*(Draft|Review|Approved)" matches at position i: the
\* position of the status word, or 0.
MetaStatusAt(t, i) ==
    IF /\ HasAt(t, i, SW) /\ HasAt(t, i + 1, COLON)
       /\ SkipSpace(t, i + 2) <= Len(t)
       /\ t[SkipSpace(t, i + 2)] \in StatusWords
    THEN SkipSpace(t, i + 2) ELSE 0

\* The leftmost match in t.
MetaStatusIn(t, found) ==
    IF found = {} THEN << >>
    ELSE << t[MetaStatusAt(t, FirstOf(found))] >>

\* meta["status"] of extract_meta_info: << >> for None.  The search runs on
\* the text as it was read.
extract_meta_info(t) ==
    MetaStatusIn(t, { i \in 1..Len(t) : MetaStatusAt(t, i) # 0 })

ApprovedItem == << DASH, SP, SW, COLON, SP, AW, NL >>
DraftItem == << DASH, SP, SW, COLON, SP, DraftW, NL >>

MetaFrags ==
    { ApprovedItem,
      DraftItem,
      << BT, BT, BT, NL >>,
      << TL, TL, TL, NL >>,
      CommentOpen \o << NL >>,
      CommentClose \o << NL >>,
      << SP, SP, SP, SP >>,
      << "a", NL >>,
      << NL >> }

TypeMeta == \E f \in MetaFrags : Type(f)

CallExtractMeta ==
    /\ calls = << >>
    /\ Apply("extract_meta_info", extract_meta_info(out))

NextMeta == TypeMeta \/ CallExtractMeta

SpecMeta == Init /\ [][NextMeta]_vars

MetaRan == calls = << "extract_meta_info" >>

\* C23: when every 'ステータス: Approved' line of the text is inside a fenced
\* block, an HTML comment or an indented block, the status returned is None;
\* when such lines come before a real top-level '- ステータス: Draft' line,
\* the status returned is 'Draft'.
C23_IgnoresNonProseStatus ==
    MetaRan =>
        /\ (/\ ~HasSubstring(prev, << DraftW >>)
            /\ extract_meta_info(sanitize_status_text(prev)) = << >>) => out = << >>
        /\ (extract_meta_info(sanitize_status_text(prev)) = << DraftW >>) => out = << DraftW >>

\* What the code returns: the first status anywhere in the text as read.
C23_FirstStatusOfRawText ==
    MetaRan =>
        /\ out = extract_meta_info(prev)
        /\ (~HasSubstring(prev, << SW >>)) => out = << >>

\* An Approved item inside a backtick fence is returned.
C23_FencedStatusReturned ==
    /\ MetaRan
    /\ prev = << BT, BT, BT, NL >> \o ApprovedItem \o << BT, BT, BT, NL >>
    /\ out = << AW >>

\* Distractor first, real Draft line after it: Approved is returned.
C23_DistractorWins ==
    /\ MetaRan
    /\ prev = CommentOpen \o << NL >> \o ApprovedItem \o CommentClose \o << NL >> \o DraftItem
    /\ out = << AW >>

\* ---------------------------------------------------------------- sections of level 2 (C24)

\* extract_h2_section for the heading patterns of the research contract.
extract_h2_section(t, heading_re) == SectionFrom(t, 1, heading_re)

HeadingPatterns == { NoveltyW, AdjacentSectionW }

NoveltyHeadingLine == << HASH, HASH, SP, NoveltyW, NL >>
AdjacentHeadingLine == << HASH, HASH, SP, AdjacentSectionW, SP, "a", NL >>

H2Frags ==
    { NoveltyHeadingLine,
      AdjacentHeadingLine,
      << HASH, HASH, SP, "b", NL >>,
      << HASH, HASH, HASH, SP, "c", NL >>,
      << SP, SP, HASH, HASH, TAB, "b" >>,
      << HASH, HASH >>,
      << "a", NL >>,
      << SP >>,
      << NL >> }

TypeH2 == \E f \in H2Frags : Type(f)

CallExtractH2 ==
    \E heading_re \in HeadingPatterns :
        /\ calls = << >>
        /\ Apply(<< "extract_h2_section", heading_re >>, extract_h2_section(out, heading_re))

NextH2Section == TypeH2 \/ CallExtractH2

SpecH2 == Init /\ [][NextH2Section]_vars

H2Ran == Len(calls) = 1 /\ calls[1][1] = "extract_h2_section"

\* The positions where heading_re matches, and the end of its first match.
HeadingMatches(t, heading_re) == { q \in 1..Len(t) : HeadingEnd(t, q, heading_re) # 0 }

FirstMatchEnd(t, heading_re) ==
    HeadingEnd(t, FirstOf(HeadingMatches(t, heading_re)), heading_re)

\* A level-2 heading line starts at r: blanks, "##", then whitespace.
H2LineAt(t, r) ==
    /\ AtLineStart(t, r)
    /\ OccursAt(t, BlankRunEnd(t, r), << HASH, HASH >>)
    /\ BlankRunEnd(t, r) + 2 <= Len(t)
    /\ IsSpace(t[BlankRunEnd(t, r) + 2])

\* The start of the first level-2 heading line from h on, Len(t) + 1 if none.
NextH2Line(t, h) ==
    IF { r \in h..Len(t) : H2LineAt(t, r) } = {} THEN Len(t) + 1
    ELSE FirstOf({ r \in h..Len(t) : H2LineAt(t, r) })

IsPrefix(s, t) == Len(s) <= Len(t) /\ SubSeq(t, 1, Len(s)) = s

AllSpace(t) == \A i \in 1..Len(t) : IsSpace(t[i])

\* C24: extract_h2_section returns the empty string when heading_re matches
\* nowhere; otherwise it returns the text after the first match of heading_re
\* up to, and not including, the next level-2 heading line, or up to the end
\* of the text when there is none.
C24_UpToNextH2Line ==
    H2Ran =>
        IF HeadingMatches(prev, calls[1][2]) = {} THEN out = << >>
        ELSE out = SubSeq(prev, FirstMatchEnd(prev, calls[1][2]),
                          NextH2Line(prev, FirstMatchEnd(prev, calls[1][2])) - 1)

\* The text between the end of the first match and the next level-2 heading line.
UpToNextH2Line(t, heading_re) ==
    SubSeq(t, FirstMatchEnd(t, heading_re), NextH2Line(t, FirstMatchEnd(t, heading_re)) - 1)

\* C24 as the code has it: the empty string without a match; otherwise the
\* text after the first match up to the next level-2 heading line, less the
\* whitespace-only lines that stand directly before that heading line.  A
\* heading of level 3 or more does not end the section, and no level-2
\* heading line starts inside the result after its first character.
C24_UpToNextH2LessBlankLines ==
    H2Ran =>
        IF HeadingMatches(prev, calls[1][2]) = {} THEN out = << >>
        ELSE /\ IsPrefix(out, UpToNextH2Line(prev, calls[1][2]))
             /\ AllSpace(SubSeq(UpToNextH2Line(prev, calls[1][2]), Len(out) + 1,
                                Len(UpToNextH2Line(prev, calls[1][2]))))
             /\ (Len(out) < Len(UpToNextH2Line(prev, calls[1][2]))
                    => /\ NextH2Line(prev, FirstMatchEnd(prev, calls[1][2])) <= Len(prev)
                       /\ (Len(out) = 0 \/ out[Len(out)] = NL))

\* A section with a level-3 heading inside and a level-2 heading after it.
C24_Witness ==
    /\ H2Ran
    /\ prev = NoveltyHeadingLine \o << HASH, HASH, HASH, SP, "c", NL >>
                  \o << "a", NL >> \o << HASH, HASH, SP, "b", NL >>
    /\ out = << NL, HASH, HASH, HASH, SP, "c", NL, "a", NL >>

\* A blank line before the next heading is not returned.
C24_BlankLineDropped ==
    /\ H2Ran
    /\ prev = NoveltyHeadingLine \o << "a", NL >> \o << NL >> \o << HASH, HASH, SP, "b", NL >>
    /\ out = << NL, "a", NL >>

\* No heading matches.
C24_NoMatch ==
    /\ H2Ran
    /\ HeadingMatches(prev, calls[1][2]) = {}
    /\ \E i \in 1..Len(prev) : H2LineAt(prev, i)
    /\ out = << >>

\* ---------------------------------------------------------------- masking keeps offsets (C25)

MaskRan == calls = << "_mask_inline_code_spans" >>

\* t[a..b] is a closed inline code span with its delimiters: a run of w
\* backticks from a, and a run of exactly w backticks that ends at b.
ClosedSpan(t, a, b) ==
    \E w \in 1..Len(t) :
        /\ RunLen(t, a, BT) = w
        /\ a + w <= b - w + 1
        /\ RunLen(t, b - w + 1, BT) = w
        /\ t[b - w] # BT

InClosedSpan(t, p) ==
    \E a \in 1..p, b \in p..Len(t) : ClosedSpan(t, a, b)

\* C25: _mask_inline_code_spans keeps offsets: the result is as long as the
\* input, every position holds the original character or a space, and every
\* position outside the closed inline code spans holds the original character.
C25_MaskPreservesOffsets ==
    MaskRan =>
        /\ Len(out) = Len(prev)
        /\ \A p \in 1..Len(prev) :
              /\ out[p] = prev[p] \/ out[p] = SP
              /\ ~InClosedSpan(prev, p) => out[p] = prev[p]

\* A span was blanked and a backtick after it was left as it is.
C25_Witness ==
    /\ MaskRan
    /\ \E p \in 1..Len(prev) : prev[p] # SP /\ out[p] = SP
    /\ \E q \in 1..Len(prev) : prev[q] = BT /\ out[q] = BT /\ ~InClosedSpan(prev, q)

\* ---------------------------------------------------------------- the two hooks (C26)

CommitW == "commit"
PushW == "push"
AgenticW == ".agentic-sdd"

EmptyDict == JDict(<< >>)

\* d.get(k, default)
GetOr(d, k, default) == IF k \in DOMAIN d.v THEN d.v[k] ELSE default

\* should_check_command
should_check_command(command) ==
    \/ HasSubstring(command, << GitW, SP, CommitW >>)
    \/ HasSubstring(command, << GitW, SP, PushW >>)

\* Lines 48-59 of check-commit-gate on what stdin holds: "skip" (return 0),
\* "check", or the exception that ends the run.  The command is a string, a
\* number or null here.
CommitGateInput(valid_json, input_data) ==
    IF ~valid_json THEN "skip"
    ELSE IF ~IsDict(input_data) THEN "AttributeError"
    ELSE IF ~IsDict(GetOr(input_data, "tool_input", EmptyDict)) THEN "AttributeError"
    ELSE IF ~IsStr(GetOr(GetOr(input_data, "tool_input", EmptyDict), "command", JStr(<< >>)))
    THEN "TypeError"
    ELSE IF should_check_command(
                GetOr(GetOr(input_data, "tool_input", EmptyDict), "command", JStr(<< >>)).v)
    THEN "check"
    ELSE "skip"

\* read_stdin_json
read_stdin_json(valid_json, obj) ==
    IF valid_json /\ IsDict(obj) THEN obj ELSE EmptyDict

PathKeys == << "path", "file", "file_path", "filePath", "filename", "target" >>

\* The first non-empty string under the keys of PathKeys in d, from key k on.
RECURSIVE PathIn(_, _)
PathIn(d, k) ==
    IF k > Len(PathKeys) THEN << >>
    ELSE IF IsStr(Get(d, PathKeys[k])) /\ Get(d, PathKeys[k]).v # << >>
    THEN << Get(d, PathKeys[k]).v >>
    ELSE PathIn(d, k + 1)

ContainerKeys == << "tool_input", "input", "args", "parameters" >>

\* extract_path: << path >>, or << >> for None.
RECURSIVE ExtractPathFrom(_, _)
ExtractPathFrom(obj, c) ==
    IF c > Len(ContainerKeys) THEN PathIn(obj, 1)
    ELSE IF IsDict(Get(obj, ContainerKeys[c])) /\ PathIn(Get(obj, ContainerKeys[c]), 1) # << >>
    THEN PathIn(Get(obj, ContainerKeys[c]), 1)
    ELSE ExtractPathFrom(obj, c + 1)

extract_path(obj) == ExtractPathFrom(obj, 1)

IsLocalPath(p) ==
    \/ p = << AgenticW >>
    \/ StartsWith(p, << AgenticW, SLASH >>)
    \/ HasSubstring(p, << SLASH, AgenticW, SLASH >>)

\* is_agentic_sdd_local_path
is_agentic_sdd_local_path(p) == IsLocalPath(BackslashToSlash(p))

\* What the hook finds: whether git names a repository root and which of the
\* two gate scripts are files under <root>/scripts.
HookEnv(root, worktree_gate, script) ==
    [root |-> root, worktree_gate |-> worktree_gate, script |-> script]

HookEnvs ==
    { HookEnv(root, worktree_gate, script) :
          root \in BOOLEAN, worktree_gate \in BOOLEAN, script \in BOOLEAN }

\* How a gate script ends: run() raises, or the process exits with a status.
GateEnd(raised, returncode) == [raised |-> raised, returncode |-> returncode]

GateEnds == { GateEnd(TRUE, 0), GateEnd(FALSE, 0), GateEnd(FALSE, 1), GateEnd(FALSE, 2) }

Running(hook, env, gate, skip_approval) ==
    [hook |-> hook, env |-> env, pc |-> gate, skip_approval |-> skip_approval, result |-> 0]

Ended(hook, env, pc, result) ==
    [hook |-> hook, env |-> env, pc |-> pc, skip_approval |-> FALSE, result |-> result]

\* Mutant of AfterWorktree: a non-zero status of the worktree gate is ignored.
AfterWorktreeIgnored(hook, env, skip_approval, returncode) ==
    IF skip_approval THEN Ended(hook, env, "returned", 0)
    ELSE IF ~env.script THEN Ended(hook, env, "returned", 0)
    ELSE Running(hook, env, "approval", FALSE)

\* From the end of the worktree gate (or from the place where it is skipped,
\* with returncode 0) to the start of the approval gate.
AfterWorktree(hook, env, skip_approval, returncode) ==
    IF returncode # 0 THEN Ended(hook, env, "returned", returncode)
    ELSE IF skip_approval THEN Ended(hook, env, "returned", 0)
    ELSE IF ~env.script THEN Ended(hook, env, "returned", 0)
    ELSE Running(hook, env, "approval", FALSE)

\* From the repository root on: the worktree gate is started when its script
\* is a file.
FromRoot(hook, env, skip_approval) ==
    IF ~env.root THEN Ended(hook, env, "returned", 0)
    ELSE IF env.worktree_gate THEN Running(hook, env, "worktree", skip_approval)
    ELSE AfterWorktree(hook, env, skip_approval, 0)

Event(what, returncode) == [what |-> what, returncode |-> returncode]

StartEvents(state) ==
    IF state.pc \in { "worktree", "approval" }
    THEN << Event(state.pc \o " started", 0) >> ELSE << >>

GitCommit == << GitW, SP, CommitW, SP, DASH, "m", SP, "x" >>
GitPush == << "a", SP, GitW, SP, PushW >>
GitStatus == << GitW, SP, "status" >>

Command(c) == JDict([tool_input |-> JDict([command |-> c])])

\* stdin of check-commit-gate: [valid, obj].
CommitInputs ==
    << [valid |-> FALSE, obj |-> JNull],
       [valid |-> TRUE, obj |-> EmptyDict],
       [valid |-> TRUE, obj |-> Command(JStr(GitCommit))],
       [valid |-> TRUE, obj |-> Command(JStr(GitPush))],
       [valid |-> TRUE, obj |-> Command(JStr(GitStatus))],
       [valid |-> TRUE, obj |-> JList(<< >>)],
       [valid |-> TRUE, obj |-> Command(JInt(1))],
       [valid |-> TRUE, obj |-> JDict([tool_input |-> JNull])] >>

LocalPath == << AgenticW, SLASH, "approvals", SLASH, "a" >>
NestedLocalPath == << "r", BSL, AgenticW, BSL, "a" >>
SourcePath == << "src", SLASH, "a" >>
LookalikePath == << AgenticW, "x", SLASH, "a" >>

\* stdin of check-impl-gate.
ImplInputs ==
    << [valid |-> FALSE, obj |-> JNull],
       [valid |-> TRUE, obj |-> EmptyDict],
       [valid |-> TRUE, obj |-> JDict([tool_input |-> JDict([file_path |-> JStr(LocalPath)])])],
       [valid |-> TRUE, obj |-> JDict([tool_input |-> JDict([file_path |-> JStr(SourcePath)])])],
       [valid |-> TRUE, obj |-> JDict([args |-> JDict([target |-> JStr(NestedLocalPath)])])],
       [valid |-> TRUE, obj |-> JDict([path |-> JStr(LookalikePath)])],
       [valid |-> TRUE, obj |-> JDict([tool_input |-> JDict([path |-> JStr(<< >>)]),
                                       filename |-> JStr(<< AgenticW >>)])],
       [valid |-> TRUE, obj |-> JList(<< >>)] >>

InitHooks == Init

\* check-commit-gate main, up to the first gate script it starts.
CommitGateFrom(kind, env) ==
    IF kind = "skip" THEN Ended("check-commit-gate", env, "returned", 0)
    ELSE IF kind = "check" THEN FromRoot("check-commit-gate", env, FALSE)
    ELSE Ended("check-commit-gate", env, kind, 1)

StartCommitGate ==
    \E i \in 1..Len(CommitInputs), env \in HookEnvs :
        /\ calls = << >>
        /\ path' = CommitGateFrom(CommitGateInput(CommitInputs[i].valid, CommitInputs[i].obj), env)
        /\ calls' = << Event("check-commit-gate", i) >> \o StartEvents(path')
        /\ prev' = << CommitInputs[i] >>
        /\ out' = IF path'.pc \in { "worktree", "approval" } THEN << >> ELSE << path'.result >>
        /\ UNCHANGED << text, n >>

\* Whether check-impl-gate leaves out the approval gate for this stdin.
SkipsApproval(input) ==
    /\ extract_path(read_stdin_json(input.valid, input.obj)) # << >>
    /\ is_agentic_sdd_local_path(extract_path(read_stdin_json(input.valid, input.obj))[1])

\* check-impl-gate main, up to the first gate script it starts.
StartImplGate ==
    \E i \in 1..Len(ImplInputs), env \in HookEnvs :
        /\ calls = << >>
        /\ path' = FromRoot("check-impl-gate", env, SkipsApproval(ImplInputs[i]))
        /\ calls' = << Event("check-impl-gate", i) >> \o StartEvents(path')
        /\ prev' = << ImplInputs[i] >>
        /\ out' = IF path'.pc \in { "worktree", "approval" } THEN << >> ELSE << path'.result >>
        /\ UNCHANGED << text, n >>

HookRunning == calls # << >> /\ out = << >>

\* validate-worktree.py ends: subprocess.run raised, or the status is in.
WorktreeEnds ==
    \E e \in GateEnds :
        /\ HookRunning
        /\ path.pc = "worktree"
        /\ path' = IF e.raised THEN Ended(path.hook, path.env, "returned", 1)
                   ELSE AfterWorktree(path.hook, path.env, path.skip_approval, e.returncode)
        /\ calls' = calls
                    \o << Event(IF e.raised THEN "worktree raised" ELSE "worktree exited",
                                e.returncode) >>
                    \o StartEvents(path')
        /\ out' = IF path'.pc = "approval" THEN << >> ELSE << path'.result >>
        /\ UNCHANGED << text, n, prev >>

\* validate-approval.py ends.
ApprovalEnds ==
    \E e \in GateEnds :
        /\ HookRunning
        /\ path.pc = "approval"
        /\ path' = Ended(path.hook, path.env, "returned", IF e.raised THEN 1 ELSE e.returncode)
        /\ calls' = calls
                    \o << Event(IF e.raised THEN "approval raised" ELSE "approval exited",
                                e.returncode) >>
        /\ out' = << path'.result >>
        /\ UNCHANGED << text, n, prev >>

NextHooks == StartCommitGate \/ StartImplGate \/ WorktreeEnds \/ ApprovalEnds

SpecHooks == InitHooks /\ [][NextHooks]_vars

HookStarted == calls # << >> /\ calls[1].what \in { "check-commit-gate", "check-impl-gate" }

Happened(what) == \E i \in 1..Len(calls) : calls[i].what = what

\* The worktree gate exited 0 before event i.
WorktreePassedBefore(i) ==
    \E j \in 1..(i - 1) : calls[j] = Event("worktree exited", 0)

\* A worktree status other than 0 ends the hook with that status and without
\* the approval gate.
NonZeroWorktreeReturned ==
    \A i \in 1..Len(calls) :
        (calls[i].what = "worktree exited" /\ calls[i].returncode # 0)
            => /\ ~Happened("approval started")
               /\ out = << calls[i].returncode >>

\* Whether the stdin of this check-commit-gate run holds a command with
\* 'git commit' or 'git push' in it.
CommandNamesCommitOrPush ==
    /\ prev[1].valid
    /\ IsDict(prev[1].obj)
    /\ IsDict(Get(prev[1].obj, "tool_input"))
    /\ IsStr(Get(Get(prev[1].obj, "tool_input"), "command"))
    /\ should_check_command(Get(Get(prev[1].obj, "tool_input"), "command").v)

\* Whether the target path of this check-impl-gate run lies under .agentic-sdd/.
TargetUnderAgenticSdd ==
    \E k \in { 3, 5, 7 } : calls[1] = Event("check-impl-gate", k)

\* C26: approval validation starts only after worktree validation returned 0,
\* a non-zero worktree status is the hook's result and stops it, the commit
\* hook returns 0 with neither gate run unless the command contains
\* 'git commit' or 'git push', and for a path under .agentic-sdd/ the impl hook
\* leaves out the approval gate and never the worktree gate.
C26_GateOrdering ==
    HookStarted =>
        /\ \A i \in 1..Len(calls) :
               calls[i].what = "approval started" => WorktreePassedBefore(i)
        /\ NonZeroWorktreeReturned
        /\ (calls[1].what = "check-commit-gate" /\ ~CommandNamesCommitOrPush)
               => /\ out = << 0 >>
                  /\ path.pc = "returned"
                  /\ Len(calls) = 1
        /\ (calls[1].what = "check-impl-gate" /\ TargetUnderAgenticSdd)
               => /\ ~Happened("approval started")
                  /\ (path.env.root => Happened("worktree started"))

\* C26, as the code has it: the ordering holds where scripts/validate-worktree.py
\* is a file, and the commit hook returns 0 for a command without the two
\* phrases where stdin is an object whose tool_input is an object and whose
\* command is a string.
C26_GateOrderingWhereInstalled ==
    HookStarted =>
        /\ \A i \in 1..Len(calls) :
               calls[i].what = "approval started"
                   => (path.env.worktree_gate => WorktreePassedBefore(i))
        /\ NonZeroWorktreeReturned
        /\ (calls[1].what = "check-commit-gate" /\ ~CommandNamesCommitOrPush)
               => /\ Len(calls) = 1
                  /\ path.pc = "returned" => out = << 0 >>
                  /\ path.pc # "returned" => path.pc \in { "AttributeError", "TypeError" }
        /\ (calls[1].what = "check-impl-gate" /\ TargetUnderAgenticSdd)
               => /\ ~Happened("approval started")
                  /\ (path.env.root /\ path.env.worktree_gate) => Happened("worktree started")

\* The approval gate runs although no worktree gate ran.
C26_ApprovalWithoutWorktree ==
    /\ HookStarted
    /\ calls[1] = Event("check-commit-gate", 3)
    /\ ~path.env.worktree_gate
    /\ Happened("approval exited")
    /\ ~Happened("worktree started")

\* The commit hook ends in an exception on a JSON array.
C26_CommitGateRaises ==
    /\ HookStarted
    /\ calls[1] = Event("check-commit-gate", 6)
    /\ path.pc = "AttributeError"

\* Both gates ran in order and the approval status is the result.
C26_BothGatesRan ==
    /\ HookStarted
    /\ calls[1].what = "check-impl-gate"
    /\ Len(calls) = 5
    /\ calls[3] = Event("worktree exited", 0)
    /\ calls[5] = Event("approval exited", 2)
    /\ out = << 2 >>

\* ---------------------------------------------------------------- the decision index (C27)

MaxIndexLines == 3

SKIP_FILES == { "_template.md", "README.md" }

NoId == ""

\* f.suffix of the file names of the model.
suffix(name) == IF name \in { "0.txt" } THEN ".txt" ELSE ".md"

\* An entry of docs/decisions (a file or a directory) with what the extract
\* functions find in it:
\* extract_decision_id, find_sections (all of REQUIRED_SECTIONS there),
\* extract_supersedes (references, some invalid entry).
DirEntry(name, is_file, did, sections, supersedes, invalid) ==
    [name |-> name, is_file |-> is_file, did |-> did, sections |-> sections,
     supersedes |-> supersedes, invalid |-> invalid]

\* A link target as written: whether it starts with './' and the components
\* of what follows.
Link(dotslash, comps) == [dotslash |-> dotslash, comps |-> comps]

\* A line of docs/decisions.md as the patterns of parse_index see it: kind is
\* "header" (## Decision Index), "h2", "h3", "open" (the stripped line starts
\* with '<!--'), "blank", "entry" (INDEX_ENTRY_RE matches) or "other"; close is
\* whether the line holds '-->'.
IndexLine(kind, close, did, link) == [kind |-> kind, close |-> close, did |-> did, link |-> link]

NoLink == Link(FALSE, << >>)

Plain(kind, close) == IndexLine(kind, close, NoId, NoLink)

Entry(did, comps) == IndexLine("entry", FALSE, did, Link(TRUE, comps))

ParseState(in_index, in_html_comment, found, entries, errors) ==
    [in_index |-> in_index, in_html_comment |-> in_html_comment, found |-> found,
     entries |-> entries, errors |-> errors]

\* The body of the loop of parse_index for one line inside the index section
\* (the break on a level-2 heading is taken by ParseLoop).
ParseLine(s, line) ==
    IF line.kind = "h3" THEN s
    ELSE IF s.in_html_comment
    THEN ParseState(TRUE, ~line.close, s.found, s.entries, s.errors)
    ELSE IF line.kind = "open"
    THEN ParseState(TRUE, ~line.close, s.found, s.entries, s.errors)
    ELSE IF line.kind = "blank" THEN s
    ELSE IF line.kind = "entry"
    THEN ParseState(TRUE, FALSE, s.found, Append(s.entries, line), s.errors)
    ELSE ParseState(TRUE, FALSE, s.found, s.entries, Append(s.errors, "Invalid Decision Index line"))

RECURSIVE ParseLoop(_, _, _)
ParseLoop(lines, i, s) ==
    IF i > Len(lines) THEN s
    ELSE IF lines[i].kind = "header"
    THEN ParseLoop(lines, i + 1,
                   ParseState(TRUE, s.in_html_comment, TRUE, s.entries, s.errors))
    ELSE IF ~s.in_index THEN ParseLoop(lines, i + 1, s)
    ELSE IF lines[i].kind = "h2" THEN s
    ELSE ParseLoop(lines, i + 1, ParseLine(s, lines[i]))

ParseEnd(s) ==
    [entries |-> s.entries,
     errors |-> IF s.found THEN s.errors
                ELSE Append(s.errors, "Missing section '## Decision Index'")]

\* parse_index: [entries, errors].
parse_index(index_exists, lines) ==
    IF ~index_exists THEN [entries |-> << >>, errors |-> << "Index file not found" >>]
    ELSE ParseEnd(ParseLoop(lines, 1, ParseState(FALSE, FALSE, FALSE, << >>, << >>)))

IsBodyFile(f) == f.is_file /\ f.name \notin SKIP_FILES /\ suffix(f.name) = ".md"

\* body_files, in the order of sorted(decisions_dir.iterdir()).
BodyFiles(files) == SelectSeq(files, IsBodyFile)

HasName(files, name) == \E i \in 1..Len(files) : files[i].name = name

FileNamed(files, name) == files[CHOOSE i \in 1..Len(files) : files[i].name = name]

TemplateErrs(files) ==
    IF ~HasName(files, "_template.md") THEN << "missing template file" >>
    ELSE IF ~FileNamed(files, "_template.md").sections
    THEN << "_template.md: missing required section" >>
    ELSE << >>

\* all_decision_ids after the first k body files: the file that holds each id
\* first.
FirstHolder(body, k, did) ==
    IF \E i \in 1..k : body[i].did = did
    THEN << CHOOSE i \in 1..k : body[i].did = did /\ \A j \in 1..(i - 1) : body[j].did # did >>
    ELSE << >>

RECURSIVE BodyIdErrs(_, _)
BodyIdErrs(body, k) ==
    IF k > Len(body) THEN << >>
    ELSE (IF body[k].did = NoId THEN << "missing or invalid Decision-ID value" >>
          ELSE IF FirstHolder(body, k - 1, body[k].did) # << >>
          THEN << "Duplicate Decision-ID in body files" >>
          ELSE << >>)
         \o BodyIdErrs(body, k + 1)

\* seen_ids[did]
SeenCount(entries, did) == Cardinality({ i \in 1..Len(entries) : entries[i].did = did })

\* One error for each id that the index holds more than once.
RECURSIVE DuplicateIndexErrs(_, _)
DuplicateIndexErrs(entries, k) ==
    IF k > Len(entries) THEN << >>
    ELSE (IF /\ SeenCount(entries, entries[k].did) > 1
             /\ \A j \in 1..(k - 1) : entries[j].did # entries[k].did
          THEN << "Duplicate index entry" >> ELSE << >>)
         \o DuplicateIndexErrs(entries, k + 1)

NotDot(c) == c # "."

\* PurePosixPath(f"docs/{ref_path[2:]}").parts
RepoRelParts(link) == << "docs" >> \o SelectSeq(link.comps, NotDot)

\* resolved_path.exists(): docs/decisions and its entries are what is on disk.
PathExists(files, parts) ==
    /\ Len(parts) = 3
    /\ parts[1] = "docs"
    /\ parts[2] = "decisions"
    /\ HasName(files, parts[3])

\* resolved_repo_rel in body_repo_paths
IsManaged(files, parts) ==
    /\ PathExists(files, parts)
    /\ IsBodyFile(FileNamed(files, parts[3]))

\* Mutant of LinkErrsOf: the Decision-ID of the body is not compared.
LinkErrsOfAnyId(files, entry, parts) ==
    IF ~entry.link.dotslash THEN << "Invalid index link path" >>
    ELSE IF Contains(parts, "..") THEN << "Invalid index link path traversal" >>
    ELSE IF Len(parts) < 3 \/ parts[1] # "docs" \/ parts[2] # "decisions"
    THEN << "Index link must point to docs/decisions/*.md" >>
    ELSE IF ~PathExists(files, parts) THEN << "Index references missing file" >>
    ELSE IF ~IsManaged(files, parts) THEN << "Index references unmanaged file" >>
    ELSE << >>

\* The errors of one index entry (index -> body).
LinkErrsOf(files, entry, parts) ==
    IF ~entry.link.dotslash THEN << "Invalid index link path" >>
    ELSE IF Contains(parts, "..") THEN << "Invalid index link path traversal" >>
    ELSE IF Len(parts) < 3 \/ parts[1] # "docs" \/ parts[2] # "decisions"
    THEN << "Index link must point to docs/decisions/*.md" >>
    ELSE IF ~PathExists(files, parts) THEN << "Index references missing file" >>
    ELSE IF ~IsManaged(files, parts) THEN << "Index references unmanaged file" >>
    ELSE IF /\ FileNamed(files, parts[3]).did # NoId
            /\ FileNamed(files, parts[3]).did # entry.did
    THEN << "Index/body Decision-ID mismatch" >>
    ELSE << >>

RECURSIVE IndexToBodyErrs(_, _, _)
IndexToBodyErrs(files, entries, k) ==
    IF k > Len(entries) THEN << >>
    ELSE LinkErrsOf(files, entries[k], RepoRelParts(entries[k].link))
         \o IndexToBodyErrs(files, entries, k + 1)

\* Whether entry k adds its file to index_files.
AddsIndexFile(entry, parts) ==
    /\ entry.link.dotslash
    /\ ~Contains(parts, "..")
    /\ Len(parts) >= 3 /\ parts[1] = "docs" /\ parts[2] = "decisions"

\* body_repo_rel in index_files
InIndexFiles(entries, name) ==
    \E k \in 1..Len(entries) :
        /\ AddsIndexFile(entries[k], RepoRelParts(entries[k].link))
        /\ RepoRelParts(entries[k].link) = << "docs", "decisions", name >>

RECURSIVE OrphanErrs(_, _, _)
OrphanErrs(body, entries, k) ==
    IF k > Len(body) THEN << >>
    ELSE (IF InIndexFiles(entries, body[k].name) THEN << >>
          ELSE << "Body file not in index" >>)
         \o OrphanErrs(body, entries, k + 1)

RECURSIVE SectionErrs(_, _)
SectionErrs(body, k) ==
    IF k > Len(body) THEN << >>
    ELSE (IF body[k].sections THEN << >> ELSE << "missing required section" >>)
         \o SectionErrs(body, k + 1)

\* did in all_decision_ids
IsKnownId(body, did) == \E i \in 1..Len(body) : body[i].did = did /\ did # NoId

RECURSIVE RefErrs(_, _, _)
RefErrs(body, refs, r) ==
    IF r > Len(refs) THEN << >>
    ELSE (IF IsKnownId(body, refs[r]) THEN << >>
          ELSE << "Supersedes references non-existent Decision-ID" >>)
         \o RefErrs(body, refs, r + 1)

RECURSIVE SupersedesErrs(_, _)
SupersedesErrs(body, k) ==
    IF k > Len(body) THEN << >>
    ELSE (IF body[k].invalid THEN << "invalid Supersedes entry" >> ELSE << >>)
         \o RefErrs(body, body[k].supersedes, 1)
         \o SupersedesErrs(body, k + 1)

ValidateParsed(files, body, parsed) ==
    IF parsed.errors # << >> THEN parsed.errors
    ELSE TemplateErrs(files)
         \o BodyIdErrs(body, 1)
         \o DuplicateIndexErrs(parsed.entries, 1)
         \o IndexToBodyErrs(files, parsed.entries, 1)
         \o OrphanErrs(body, parsed.entries, 1)
         \o SectionErrs(body, 1)
         \o SupersedesErrs(body, 1)

\* validate(repo_root) for a repository whose docs/decisions.md has these
\* lines (or is not there) and whose docs/decisions has these entries.
validate(index_exists, lines, files) ==
    ValidateParsed(files, BodyFiles(files), parse_index(index_exists, lines))

Body(name, did, supersedes) == DirEntry(name, TRUE, did, TRUE, supersedes, FALSE)

\* What is in docs/decisions before any decision is recorded.
StartFiles ==
    << Body("0.txt", "D1", << >>),
       Body("README.md", "D1", << >>),
       DirEntry("Z.md", FALSE, NoId, FALSE, << >>, FALSE) >>

\* The entries that may be added, in the order of sorted().
NewFiles ==
    << DirEntry("_template.md", TRUE, NoId, TRUE, << >>, FALSE),
       DirEntry("_template.md", TRUE, NoId, FALSE, << >>, FALSE),
       Body("a.md", "D1", << >>),
       Body("a.md", "D2", << >>),
       Body("a.md", NoId, << >>),
       Body("b.md", "D2", << "D1" >>),
       Body("b.md", "D2", << "D9" >>),
       Body("b.md", "D1", << >>),
       DirEntry("b.md", TRUE, "D2", FALSE, << >>, FALSE),
       DirEntry("b.md", TRUE, "D2", TRUE, << >>, TRUE) >>

DirOrder == << "0.txt", "README.md", "Z.md", "_template.md", "a.md", "b.md" >>

DirRank(name) == CHOOSE k \in 1..Len(DirOrder) : DirOrder[k] = name

IndexLines ==
    { Plain("header", FALSE), Plain("h2", FALSE), Plain("h3", FALSE), Plain("open", FALSE),
      Plain("other", TRUE), Plain("blank", FALSE),
      Entry("D1", << "decisions", "a.md" >>),
      Entry("D2", << "decisions", ".", "b.md" >>),
      Entry("D2", << "decisions", "a.md" >>),
      Entry("D1", << "decisions", "README.md" >>),
      Entry("D1", << "decisions", "c.md" >>),
      Entry("D1", << "decisions", "..", "decisions", "a.md" >>),
      Entry("D1", << "a.md" >>),
      IndexLine("entry", FALSE, "D1", Link(FALSE, << "decisions", "a.md" >>)) }

InitDecisions ==
    /\ text = << >>
    /\ n = 0
    /\ calls = << >>
    /\ path \in { [index |-> b, files |-> StartFiles] : b \in BOOLEAN }
    /\ prev = << >>
    /\ out = << >>

\* A line is added to docs/decisions.md.
TypeIndexLine ==
    \E line \in IndexLines :
        /\ calls = << >>
        /\ path.index
        /\ Len(path.files) = Len(StartFiles)
        /\ Len(text) < MaxIndexLines
        /\ text' = Append(text, line)
        /\ UNCHANGED << n, calls, path, prev, out >>

\* A file is added to docs/decisions.
AddFile ==
    \E k \in 1..Len(NewFiles) :
        /\ calls = << >>
        /\ DirRank(NewFiles[k].name) > DirRank(path.files[Len(path.files)].name)
        /\ path' = [path EXCEPT !.files = Append(@, NewFiles[k])]
        /\ UNCHANGED << text, n, calls, prev, out >>

CallValidate ==
    /\ calls = << >>
    /\ calls' = << "validate" >>
    /\ out' = validate(path.index, text, path.files)
    /\ UNCHANGED << text, n, path, prev >>

NextDecisions == TypeIndexLine \/ AddFile \/ CallValidate

SpecDecisions == InitDecisions /\ [][NextDecisions]_vars

Validated == calls = << "validate" >>

\* The index entries: the entry lines of the index section that lie outside
\* its comments.
IndexEntries == parse_index(path.index, text).entries

\* The managed body files.
Managed == { i \in 1..Len(path.files) : IsBodyFile(path.files[i]) }

\* Index entry k points to managed body file i.
PointsTo(k, i) ==
    /\ IndexEntries[k].link.dotslash
    /\ RepoRelParts(IndexEntries[k].link) = << "docs", "decisions", path.files[i].name >>

OneToOne ==
    /\ \A k, l \in 1..Len(IndexEntries) : IndexEntries[k].did = IndexEntries[l].did => k = l
    /\ \A i, j \in Managed : path.files[i].did = path.files[j].did => i = j
    /\ \A k \in 1..Len(IndexEntries) :
           \E i \in Managed : PointsTo(k, i) /\ path.files[i].did = IndexEntries[k].did
    /\ \A i \in Managed : \E k \in 1..Len(IndexEntries) : PointsTo(k, i)
    /\ Len(IndexEntries) = Cardinality(Managed)

SupersedesExist ==
    \A i \in Managed :
        \A r \in 1..Len(path.files[i].supersedes) :
            \E j \in Managed : path.files[j].did = path.files[i].supersedes[r]

\* C27: validate returns no error only if the index entries and the managed
\* body files are in one-to-one correspondence (no Decision-ID twice in the
\* index or in two body files, every link to an existing managed body file
\* with the entry's Decision-ID, every body file referenced) and every
\* Supersedes reference names the Decision-ID of some body file.
C27_EmptyOnlyIfOneToOne ==
    (Validated /\ out = << >>) => (OneToOne /\ SupersedesExist)

\* An accepted repository: two decisions, the second superseding the first.
C27_Witness ==
    /\ Validated
    /\ out = << >>
    /\ Len(IndexEntries) = 2
    /\ Cardinality(Managed) = 2
    /\ \E i \in Managed : path.files[i].supersedes = << "D1" >>

\* ---------------------------------------------------------------- no opener left (C28)

StripRan == calls \in { << "strip_html_comment_blocks" >>, << "sanitize_status_text" >> }

\* C28: what strip_html_comment_blocks and sanitize_status_text return holds
\* no '<!--' outside an inline code span: after masking the inline code spans of
\* the result no '<!--' is left.
C28_NoOpenerOutsideCode ==
    StripRan => ~HasCommentOpen(mask_inline_code_spans(out))

\* Removing a comment splices an opener together, and the result is cut there.
C28_SplicedOpener ==
    /\ calls = << "strip_html_comment_blocks" >>
    /\ text = << LT, BANG >> \o CommentOpen \o CommentClose \o << DASH, DASH >>
    /\ prev = text
    /\ out = << >>

\* An opener inside an inline code span stays, the one after it cuts the text.
C28_Witness ==
    /\ calls = << "sanitize_status_text" >>
    /\ text = << BT >> \o CommentOpen \o << BT >> \o CommentOpen
    /\ out = << BT >> \o CommentOpen \o << BT >>

\* ---------------------------------------------------------------- Approved and an open comment (C29)

\* The text without its fenced blocks, its indented blocks and its matched
\* '<!-- ... -->' pairs; an opener without a closer stays where it is.
WithoutCodeAndMatchedComments(t) ==
    SpliceComments(strip_indented_code_blocks(strip_fenced_code_blocks(t)),
                   mask_inline_code_spans(strip_indented_code_blocks(strip_fenced_code_blocks(t))),
                   1)

\* A top-level '- S: Approved' line outside every fenced block, indented block
\* and matched comment pair.
HasTopLevelApproved(t) == StatusApproved(WithoutCodeAndMatchedComments(t))

\* An unmatched '<!--' outside code.
HasUnmatchedOpener(t) ==
    HasCommentOpen(mask_inline_code_spans(WithoutCodeAndMatchedComments(t)))

PlaceholdersRanOnDoc == calls = << "lint_placeholders" >> /\ IsPrdOrEpicDoc(path)

\* C29: a PRD or Epic with a top-level Approved status line outside every
\* fenced block, indented block and matched comment pair is Approved wherever
\* an unterminated comment sits, so an unmatched '<!--' outside code, before
\* the status line too, gives the lint_placeholders Finding unless the allow
\* marker is there.
C29_ApprovedWhereverOpenerSits ==
    (PlaceholdersRanOnDoc /\ HasTopLevelApproved(text))
        => /\ is_approved_prd_or_epic(path, text)
           /\ (HasUnmatchedOpener(text) /\ ~HasAllowMarker(text)) => out # << >>

\* The opener stands before the status line: the document is not Approved and
\* there is no Finding.
C29_OpenerBeforeStatus ==
    /\ PlaceholdersRanOnDoc
    /\ text = CommentOpen \o << NL >> \o StatusTop
    /\ HasTopLevelApproved(text)
    /\ ~is_approved_prd_or_epic(path, text)
    /\ out = << >>

\* The opener stands after the status line: the Finding is there.
C29_OpenerAfterStatus ==
    /\ PlaceholdersRanOnDoc
    /\ text = StatusTop \o CommentOpen
    /\ is_approved_prd_or_epic(path, text)
    /\ out # << >>

\* ---------------------------------------------------------------- the two inline-code scanners (C30)

\* The ranges <<i, k + len(delim) - 1>> that the loop of
\* strip_inline_code_spans leaves out, from position i on.
RECURSIVE StrippedFrom(_, _)
StrippedFrom(t, i) ==
    IF i > Len(t) THEN { }
    ELSE IF t[i] # BT THEN StrippedFrom(t, NextOf(t, i, { BT }))
    ELSE IF Find(t, SubSeq(t, i, i + RunLen(t, i, BT) - 1), i + RunLen(t, i, BT)) = 0
    THEN StrippedFrom(t, i + RunLen(t, i, BT))
    ELSE { << i, Find(t, SubSeq(t, i, i + RunLen(t, i, BT) - 1), i + RunLen(t, i, BT))
                    + RunLen(t, i, BT) - 1 >> }
         \cup StrippedFrom(t, Find(t, SubSeq(t, i, i + RunLen(t, i, BT) - 1), i + RunLen(t, i, BT))
                                  + RunLen(t, i, BT))

\* The spans that strip_inline_code_spans removes, delimiters included.
StrippedSpans(t) == StrippedFrom(t, 1)

\* The text without the positions of the ranges sp.
RECURSIVE Without(_, _, _)
Without(t, sp, p) ==
    IF p > Len(t) THEN << >>
    ELSE (IF InSpan(sp, p) THEN << >> ELSE << t[p] >>) \o Without(t, sp, p + 1)

CallStripSpans ==
    /\ calls = << >>
    /\ Apply("strip_inline_code_spans", strip_inline_code_spans(out))

NextSpans == TypeComment \/ CallMask \/ CallStripSpans

SpecSpans == Init /\ [][NextSpans]_vars

StripSpansRan == calls = << "strip_inline_code_spans" >>

\* The places where _mask_inline_code_spans leaves a '<!--'.
UnmaskedOpeners(t) ==
    { i \in 1..Len(t) : OccursAt(mask_inline_code_spans(t), i, CommentOpen) }

\* The four characters of the opener at i are kept by strip_inline_code_spans.
Survives(t, i) ==
    \A q \in i..(i + Len(CommentOpen) - 1) : ~InSpan(StrippedSpans(t), q)

\* strip_inline_code_spans returns the text without the spans it removes.
StripSpansIsWithout ==
    StripSpansRan => out = Without(text, StrippedSpans(text), 1)

\* C30: every '<!--' that _mask_inline_code_spans leaves unmasked survives
\* strip_inline_code_spans, so what lint_placeholders searches holds every
\* opener that the sanitizer takes for real.
C30_UnmaskedOpenerSurvives ==
    StripSpansRan =>
        /\ \A i \in UnmaskedOpeners(text) : Survives(text, i)
        /\ UnmaskedOpeners(text) # { } => HasCommentOpen(out)

HasBackslash(t) == \E i \in 1..Len(t) : t[i] = BSL

\* C30 where the scanners agree: without a backslash and with backtick runs of
\* one length only, every unmasked opener survives.
C30_SurvivesWithoutEscapesAndMixedRuns ==
    ( /\ StripSpansRan
      /\ ~HasBackslash(text)
      /\ \A i \in 1..Len(text) : text[i] = BT => RunLen(text, i, BT) = 1 )
        => /\ \A i \in UnmaskedOpeners(text) : Survives(text, i)
           /\ UnmaskedOpeners(text) # { } => HasCommentOpen(out)

\* The opener between an escaped backtick and a backtick is removed.
C30_EscapedBacktick ==
    /\ StripSpansRan
    /\ text = << BSL, BT >> \o CommentOpen \o << BT >>
    /\ UnmaskedOpeners(text) = { 3 }
    /\ out = << BSL >>

\* The opener between runs of one and of two backticks is removed.
C30_UnequalRuns ==
    /\ StripSpansRan
    /\ text = << BT >> \o CommentOpen \o << BT, BT >>
    /\ UnmaskedOpeners(text) = { 2 }
    /\ out = << BT >>

\* An opener outside the spans of both scanners survives.
C30_Agreeing ==
    /\ StripSpansRan
    /\ text = << BT, "a", BT >> \o CommentOpen
    /\ UnmaskedOpeners(text) = { 4 }
    /\ out = CommentOpen

====
